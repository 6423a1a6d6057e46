-------------------------- MODULE Memory_proofs -----------------------------
(***************************************************************************)
(* The memory of frames and tensors: the camera frames that packets lease  *)
(* (FramePipeline), the tensors of a session (TensorLeases), the bytes     *)
(* that frames, crops, tensors and batches reach (ImageTensors), and what  *)
(* is made of documents (Assembly).                                        *)
(*                                                                         *)
(* Camera frames come back and every begun execution is counted once, for  *)
(* any number of buffers and of packets.  With batches of one a frame      *)
(* always finds a tensor, whatever the stage queue holds and however many  *)
(* frames there are.  No byte goes astray and no size that wraps is taken  *)
(* for a small one, for every input and whatever the widths of int,        *)
(* uint32_t and size_t are, and the longest vector (LimitsAssumption).     *)
(* What is assembled can run, except with the sizes that the property      *)
(* names: they end in an exception, or end the process.                    *)
(***************************************************************************)
EXTENDS FramePipeline, TensorLeases, Assembly,
        FiniteSetTheorems, SequenceTheorems, WellFoundedInduction, TLAPS

Places == {"test", "asleep", "leased", "exhausted", "cancelled"}

\* A packet leases one buffer at most.
Lease == {{}} \cup {{b} : b \in 1 .. Buffers}

PoolTypes ==
    /\ pool \in [available : Seq(1 .. Buffers), owed : Nat, stop : BOOLEAN, policy : {"Block", "Drop"}]
    /\ taker \in [Takers -> [place : Places, buffer : Lease]]

\* Every buffer is in one place: in the pool, or with one packet.
OwnInv ==
    /\ IsInjective(pool.available)
    /\ \A t \in Takers : taker[t].buffer \cap ToSet(pool.available) = {}
    /\ \A t, u \in Takers : t # u => taker[t].buffer \cap taker[u].buffer = {}
    /\ \A b \in 1 .. Buffers : b \in ToSet(pool.available) \/ \E t \in Takers : b \in taker[t].buffer

\* Only who has acquired a buffer can have one to give back.
IdleInv == \A t \in Takers : taker[t].place # "leased" => taker[t].buffer = {}

Testing == {t \in Takers : taker[t].place = "test"}

WakeInv == Asleep # {} => Len(pool.available) <= pool.owed + Cardinality(Testing)

PoolInv == PoolTypes /\ OwnInv /\ IdleInv /\ WakeInv

Stages == {"new", "preprocess", "prepared", "inferred", "finish", "count", "done", "cancelled"}

PacketRecord == [stage : Stages, failed : BOOLEAN, calls : Nat]

TimingRecord ==
    [mode : {"run", "parallel", "batch"}, camera : {"AfterImagePreparation", "AfterPostprocess"},
     begun : SUBSET Takers, running : SUBSET Takers, completed : Nat, failed : Nat, reported : BOOLEAN]

PacketTypes == packet \in [Takers -> PacketRecord] /\ timing \in TimingRecord

\* Stages that follow the end of the camera frame.
FrameGone(t) ==
    \/ packet[t].stage \in {"finish", "count", "done", "cancelled"}
    \/ packet[t].stage \in {"prepared", "inferred"} /\ timing.camera = "AfterImagePreparation"

FrameInv == \A t \in Takers : FrameGone(t) => taker[t].buffer = {}

\* Where a packet stands, against the timings that were begun and still run.
StageInv ==
    /\ timing.running \subseteq timing.begun
    /\ \A t \in Takers :
          /\ taker[t].place # "leased" => packet[t].stage = "new"
          /\ packet[t].stage = "new" => t \notin timing.begun
          /\ packet[t].stage \in {"count", "done"} => t \notin timing.running
          /\ packet[t].stage \in {"finish", "count"} => packet[t].calls > 0
          /\ packet[t].stage = "cancelled" /\ t \in timing.running => timing.mode = "batch"

Counting == {t \in Takers : packet[t].stage = "count"}

CountInv ==
    /\ timing.completed + Cardinality(timing.running \cup Counting) = Cardinality(timing.begun)
    /\ timing.failed <= timing.completed

\* The report comes when all is over, and nothing starts again.
ReportInv == timing.reported => \A t \in Takers : Finished(t)

IInv == PoolInv /\ PacketTypes /\ FrameInv /\ StageInv /\ CountInv /\ ReportInv
-----------------------------------------------------------------------------
(* Sequences of buffers.                                                   *)

\* The numbers in a sequence are those of its elements.
LEMMA SeqRange ==
  ASSUME NEW S, NEW s \in Seq(S)
  PROVE  /\ Len(s) \in Nat /\ DOMAIN s = 1 .. Len(s)
         /\ ToSet(s) = {s[i] : i \in 1 .. Len(s)} /\ ToSet(s) \subseteq S
<1>1. Len(s) \in Nat /\ DOMAIN s = 1 .. Len(s) /\ s \in [1 .. Len(s) -> S]
  BY LenProperties
<1> QED
  BY <1>1 DEF ToSet

\* SetToSeq lists every element of a finite set once.
LEMMA ListOfSet ==
  ASSUME NEW S, IsFiniteSet(S)
  PROVE  /\ SetToSeq(S) \in Seq(S) /\ Len(SetToSeq(S)) = Cardinality(S)
         /\ IsInjective(SetToSeq(S)) /\ ToSet(SetToSeq(S)) = S
<1> DEFINE n == Cardinality(S)
           f == SetToSeq(S)
<1>1. n \in Nat /\ ExistsBijection(1 .. n, S)
  BY FS_CardinalityType
<1>2. \E g \in [1 .. n -> S] : IsInjective(g)
  BY <1>1 DEF ExistsBijection, Bijection, Injection
<1>3. f \in [1 .. n -> S] /\ IsInjective(f)
  BY <1>2 DEF SetToSeq
<1>4. f \in Injection(1 .. n, S)
  BY <1>3 DEF Injection
<1>5. Cardinality(1 .. n) = n
  BY <1>1, FS_Interval
<1>6. f \in Surjection(1 .. n, S)
  BY <1>4, <1>5, FS_Injection
<1>7. \A b \in S : \E i \in 1 .. n : f[i] = b
  BY <1>6 DEF Surjection
<1> HIDE DEF n, f
<1>8. f \in Seq(S) /\ Len(f) = n
  BY <1>1, <1>3
<1>9. ToSet(f) = S
  BY <1>3, <1>7 DEF ToSet
<1> QED
  BY <1>3, <1>8, <1>9 DEF n, f

\* Two lists without an element in common are one list.
LEMMA JoinLists ==
  ASSUME NEW S, NEW s \in Seq(S), NEW t \in Seq(S),
         IsInjective(s), IsInjective(t), ToSet(s) \cap ToSet(t) = {}
  PROVE  /\ s \o t \in Seq(S) /\ Len(s \o t) = Len(s) + Len(t)
         /\ IsInjective(s \o t) /\ ToSet(s \o t) = ToSet(s) \cup ToSet(t)
<1> DEFINE m == Len(s)
           n == Len(t)
           j == s \o t
<1>1. /\ m \in Nat /\ DOMAIN s = 1 .. m /\ ToSet(s) = {s[i] : i \in 1 .. m}
      /\ n \in Nat /\ DOMAIN t = 1 .. n /\ ToSet(t) = {t[i] : i \in 1 .. n}
  BY SeqRange
<1>2. /\ j \in Seq(S) /\ Len(j) = m + n
      /\ \A i \in 1 .. m + n : j[i] = IF i <= m THEN s[i] ELSE t[i - m]
  BY ConcatProperties
<1>3. DOMAIN j = 1 .. m + n /\ ToSet(j) = {j[i] : i \in 1 .. m + n}
  BY <1>2, SeqRange
<1> HIDE DEF m, n, j
<1>4. ASSUME NEW i \in 1 .. m + n
      PROVE  \/ i \in 1 .. m /\ j[i] = s[i] /\ j[i] \in ToSet(s)
             \/ i > m /\ i - m \in 1 .. n /\ j[i] = t[i - m] /\ j[i] \in ToSet(t)
  BY <1>1, <1>2
<1>5. IsInjective(j)
  <2> SUFFICES ASSUME NEW i \in 1 .. m + n, NEW k \in 1 .. m + n, j[i] = j[k] PROVE i = k
    BY <1>3 DEF IsInjective
  <2>1. CASE i \in 1 .. m /\ k \in 1 .. m
    <3>1. s[i] = s[k]
      BY <2>1, <1>1, <1>2
    <3> QED
      BY <2>1, <3>1, <1>1 DEF IsInjective
  <2>2. CASE i > m /\ k > m
    <3>1. i - m \in 1 .. n /\ k - m \in 1 .. n /\ t[i - m] = t[k - m]
      BY <2>2, <1>1, <1>2
    <3>2. i - m = k - m
      BY <3>1, <1>1 DEF IsInjective
    <3> QED
      BY <3>2, <1>1
  <2>3. ~(j[i] \in ToSet(s) /\ j[k] \in ToSet(t)) /\ ~(j[i] \in ToSet(t) /\ j[k] \in ToSet(s))
    OBVIOUS
  <2> QED
    BY <2>1, <2>2, <2>3, <1>1, <1>4
<1>6. ToSet(j) \subseteq ToSet(s) \cup ToSet(t)
  BY <1>3, <1>4
<1>7. ASSUME NEW b \in ToSet(s) PROVE b \in ToSet(j)
  <2>1. PICK i \in 1 .. m : s[i] = b
    BY <1>1
  <2>2. i \in 1 .. m + n /\ j[i] = b
    BY <2>1, <1>1, <1>2
  <2> QED
    BY <2>2, <1>3
<1>8. ASSUME NEW b \in ToSet(t) PROVE b \in ToSet(j)
  <2>1. PICK i \in 1 .. n : t[i] = b
    BY <1>1
  <2>2. m + i \in 1 .. m + n /\ j[m + i] = t[m + i - m] /\ m + i - m = i
    BY <2>1, <1>1, <1>2
  <2> QED
    BY <2>1, <2>2, <1>3
<1> QED
  BY <1>2, <1>5, <1>6, <1>7, <1>8 DEF m, n, j

\* Taking the last element off a list.
LEMMA TakeLast ==
  ASSUME NEW S, NEW s \in Seq(S), s # << >>, IsInjective(s)
  PROVE  /\ Last(s) \in ToSet(s) /\ Last(s) \in S
         /\ Front(s) \in Seq(S) /\ Len(Front(s)) = Len(s) - 1
         /\ IsInjective(Front(s)) /\ ToSet(Front(s)) = ToSet(s) \ {Last(s)}
<1> DEFINE n == Len(s)
           f == Front(s)
<1>1. /\ n \in Nat \ {0} /\ DOMAIN s = 1 .. n
      /\ ToSet(s) = {s[i] : i \in 1 .. n} /\ ToSet(s) \subseteq S
  BY SeqRange, EmptySeq
<1>2. \A i \in 1 .. n - 1 : s[i] \in S
  BY <1>1
<1>3. f \in Seq(S) /\ Len(f) = n - 1 /\ \A i \in 1 .. n - 1 : f[i] = s[i]
  <2>0. 1 \in Int /\ n - 1 \in Int
    BY <1>1
  <2> DEFINE g == SubSeq(s, 1, n - 1)
  <2>1. /\ g \in Seq(S) /\ Len(g) = (IF 1 <= n - 1 THEN n - 1 - 1 + 1 ELSE 0)
        /\ \A i \in 1 .. n - 1 - 1 + 1 : g[i] = s[1 + i - 1]
    BY <2>0, <1>2, SubSeqProperties
  <2>2. f = g
    BY DEF Front
  <2> HIDE DEF g, n, f
  <2> QED
    BY <2>1, <2>2, <1>1
<1>4. DOMAIN f = 1 .. n - 1 /\ ToSet(f) = {f[i] : i \in 1 .. n - 1}
  BY <1>3, SeqRange
<1>5. Last(s) = s[n]
  BY DEF Last
<1> HIDE DEF n, f
<1>6. IsInjective(f)
  BY <1>1, <1>3, <1>4 DEF IsInjective
<1>7. \A i \in 1 .. n - 1 : s[i] # s[n]
  BY <1>1 DEF IsInjective
<1>8. ToSet(f) = ToSet(s) \ {s[n]}
  BY <1>1, <1>3, <1>4, <1>7
<1> QED
  BY <1>1, <1>3, <1>5, <1>6, <1>8 DEF n, f
-----------------------------------------------------------------------------
(* The pool.                                                               *)

\* The leases of some packets end together: one packet's release(), or a batch's.
GiveBack(members) ==
    LET back == UNION {taker[t].buffer : t \in members}
    IN  /\ taker' = [t \in Takers |-> IF t \in members THEN [taker[t] EXCEPT !.buffer = {}] ELSE taker[t]]
        /\ pool' = [pool EXCEPT !.available = @ \o SetToSeq(back), !.owed = @ + Cardinality(back)]

\* What a step of a packet may do to the pool.
PoolStep ==
    \/ UNCHANGED <<pool, taker>>
    \/ \E t \in Takers : Acquire(t)
    \/ \E members \in SUBSET Takers : GiveBack(members)
    \/ Notify
    \/ RequestStop

\* release() is a batch of one.
LEMMA ReleaseGivesBack ==
  ASSUME PoolTypes, NEW t \in Takers, Release(t)
  PROVE  GiveBack({t})
<1>1. UNION {taker[u].buffer : u \in {t}} = taker[t].buffer
  OBVIOUS
<1>2. taker' = [taker EXCEPT ![t].buffer = {}] /\ taker \in [Takers -> [place : Places, buffer : Lease]]
  BY DEF Release, PoolTypes
<1>3. taker' = [u \in Takers |-> IF u \in {t} THEN [taker[u] EXCEPT !.buffer = {}] ELSE taker[u]]
  BY <1>2
<1> QED
  BY <1>1, <1>3 DEF GiveBack, Release

\* A lease is a set of one buffer, or empty.
LEMMA LeaseKinds ==
  ASSUME NEW lease \in Lease
  PROVE  /\ lease \subseteq 1 .. Buffers /\ IsFiniteSet(lease)
         /\ \A b, c \in lease : b = c
<1>1. CASE lease = {}
  BY <1>1, FS_EmptySet
<1>2. CASE lease # {}
  <2>1. PICK b \in 1 .. Buffers : lease = {b}
    BY <1>2 DEF Lease
  <2>2. IsFiniteSet({b})
    BY FS_Singleton
  <2> QED
    BY <2>1, <2>2
<1> QED
  BY <1>1, <1>2

\* The packets that will look at the pool are finitely many.
LEMMA TestingFinite ==
  IsFiniteSet(Testing) /\ Cardinality(Testing) \in Nat
<1>1. Testing \in SUBSET Takers
  BY DEF Testing
<1> QED
  BY <1>1, FS_Subset, FS_CardinalityType, TakersAssumption

\* At the start every buffer is in the pool, and nobody sleeps.
LEMMA PoolInvInit ==
  ASSUME PoolInit
  PROVE  PoolInv
<1> DEFINE N == Buffers
           up == [i \in 1 .. N |-> i]
           down == [i \in 1 .. N |-> N - i + 1]
<1>1. PICK policy \in {"Block", "Drop"} :
          pool = [available |-> Reverse(up), owed |-> 0, stop |-> FALSE, policy |-> policy]
  BY DEF PoolInit
<1>2. taker = [t \in Takers |-> [place |-> "test", buffer |-> {}]]
  BY DEF PoolInit
<1>3. N \in Nat
  BY BuffersAssumption
<1>4. Reverse(up) = down
  <2>1. up \in Seq(1 .. N) /\ Len(up) = N
    BY <1>3
  <2> QED
    BY <1>3, <2>1 DEF Reverse
<1>5. down \in Seq(1 .. N) /\ DOMAIN down = 1 .. N
  BY <1>3
<1>6. IsInjective(down)
  BY <1>3 DEF IsInjective
<1>7. ToSet(down) = 1 .. N
  <2>1. \A b \in 1 .. N : N - b + 1 \in 1 .. N /\ down[N - b + 1] = b
    BY <1>3
  <2> QED
    BY <1>3, <1>5, <2>1 DEF ToSet
<1> HIDE DEF down, N, up
<1>8. PoolTypes
  <2>1. {} \in Lease
    BY DEF Lease
  <2>2. taker \in [Takers -> [place : Places, buffer : Lease]]
    BY <1>2, <2>1 DEF Places
  <2>3. down \in Seq(1 .. Buffers)
    BY <1>5 DEF N
  <2> QED
    BY <1>1, <1>4, <2>2, <2>3 DEF PoolTypes
<1>9. OwnInv
  BY <1>1, <1>2, <1>4, <1>6, <1>7 DEF OwnInv, N
<1>10. IdleInv /\ WakeInv
  BY <1>2 DEF IdleInv, WakeInv, Asleep
<1> QED
  BY <1>8, <1>9, <1>10 DEF PoolInv
\* Buffers that come back are in the pool and nowhere else, with a notification each.
LEMMA GiveBackStep ==
  ASSUME PoolInv, NEW members \in SUBSET Takers, GiveBack(members)
  PROVE  PoolInv'
<1> DEFINE back == UNION {taker[t].buffer : t \in members}
           list == SetToSeq(back)
           free == pool.available
           k == Cardinality(back)
<1>1. /\ pool \in [available : Seq(1 .. Buffers), owed : Nat, stop : BOOLEAN, policy : {"Block", "Drop"}]
      /\ taker \in [Takers -> [place : Places, buffer : Lease]]
  BY DEF PoolInv, PoolTypes
<1>2. back \subseteq 1 .. Buffers
  BY <1>1, LeaseKinds
<1>3. IsFiniteSet(back) /\ k \in Nat
  <2>1. IsFiniteSet(1 .. Buffers)
    BY FS_Interval, BuffersAssumption
  <2> QED
    BY <1>2, <2>1, FS_Subset, FS_CardinalityType
<1>4. list \in Seq(back) /\ Len(list) = k /\ IsInjective(list) /\ ToSet(list) = back
  BY <1>3, ListOfSet
<1>5. list \in Seq(1 .. Buffers)
  BY <1>2, <1>4, SeqMonotonic
<1>6. ToSet(free) \cap back = {}
  BY DEF PoolInv, OwnInv
<1>7. /\ free \o list \in Seq(1 .. Buffers) /\ Len(free \o list) = Len(free) + k
      /\ IsInjective(free \o list) /\ ToSet(free \o list) = ToSet(free) \cup back
  <2>1. free \in Seq(1 .. Buffers) /\ IsInjective(free)
    BY <1>1 DEF PoolInv, OwnInv
  <2>2. ToSet(free) \cap ToSet(list) = {}
    BY <1>4, <1>6
  <2> HIDE DEF free, list, back
  <2> QED
    BY <1>4, <1>5, <2>1, <2>2, JoinLists
<1>8. /\ taker' = [t \in Takers |-> IF t \in members THEN [taker[t] EXCEPT !.buffer = {}] ELSE taker[t]]
      /\ pool' = [pool EXCEPT !.available = free \o list, !.owed = pool.owed + k]
  BY DEF GiveBack
<1>9. \A t \in Takers : /\ t \in members => taker'[t] = [taker[t] EXCEPT !.buffer = {}]
                        /\ t \notin members => taker'[t] = taker[t]
  BY <1>8
<1> DEFINE ended(t) == [taker[t] EXCEPT !.buffer = {}]
<1>10. ASSUME NEW t \in Takers
       PROVE  /\ taker[t] \in [place : Places, buffer : Lease] /\ ended(t) \in [place : Places, buffer : Lease]
              /\ ended(t).place = taker[t].place /\ ended(t).buffer = {}
  <2>1. taker[t] \in [place : Places, buffer : Lease]
    BY <1>1
  <2>2. {} \in Lease
    BY DEF Lease
  <2> QED
    BY <2>1, <2>2
<1>11. \A t \in Takers : /\ taker'[t].place = taker[t].place
                         /\ t \in members => taker'[t].buffer = {}
                         /\ t \notin members => taker'[t].buffer = taker[t].buffer
  BY <1>9, <1>10
<1>12. \A t \in members : taker[t].buffer \subseteq back
  OBVIOUS
<1>13. \A b \in back : \E t \in members : b \in taker[t].buffer
  OBVIOUS
<1>14. pool' \in [available : Seq(1 .. Buffers), owed : Nat, stop : BOOLEAN, policy : {"Block", "Drop"}]
      /\ pool'.available = free \o list /\ pool'.owed = pool.owed + k
  <2>1. pool.owed + k \in Nat
    BY <1>1, <1>3
  <2> HIDE DEF free, list, k
  <2> QED
    BY <1>1, <1>7, <1>8, <2>1
<1> HIDE DEF back, list, k
<1>15. PoolTypes'
  <2>1. \A t \in Takers : taker'[t] \in [place : Places, buffer : Lease]
    BY <1>9, <1>10
  <2>2. taker' \in [Takers -> [place : Places, buffer : Lease]]
    BY <1>8, <2>1
  <2> QED
    BY <1>14, <2>2 DEF PoolTypes
<1>16. OwnInv'
  <2>1. OwnInv
    BY DEF PoolInv
  <2>2. IsInjective(pool'.available) /\ ToSet(pool'.available) = ToSet(free) \cup back
    BY <1>7, <1>14
  <2>3. \A t \in Takers : taker'[t].buffer \cap ToSet(pool'.available) = {}
    <3> TAKE t \in Takers
    <3>1. CASE t \in members
      BY <3>1, <1>11
    <3>2. CASE t \notin members
      <4>1. \A u \in members : taker[t].buffer \cap taker[u].buffer = {}
        BY <2>1, <3>2 DEF OwnInv
      <4>2. taker[t].buffer \cap back = {}
        BY <1>13, <4>1
      <4> QED
        BY <2>1, <2>2, <3>2, <4>2, <1>11 DEF OwnInv
    <3> QED
      BY <3>1, <3>2
  <2>4. \A t, u \in Takers : t # u => taker'[t].buffer \cap taker'[u].buffer = {}
    BY <2>1, <1>11 DEF OwnInv
  <2>5. \A b \in 1 .. Buffers : b \in ToSet(pool'.available) \/ \E t \in Takers : b \in taker'[t].buffer
    BY <2>1, <2>2, <1>11, <1>12 DEF OwnInv
  <2> QED
    BY <2>2, <2>3, <2>4, <2>5 DEF OwnInv
<1>17. IdleInv'
  BY <1>11 DEF PoolInv, IdleInv
<1>18. WakeInv'
  <2>1. Asleep' = Asleep /\ Testing' = Testing
    BY <1>11 DEF Asleep, Testing
  <2>2. Len(free) \in Nat /\ Cardinality(Testing) \in Nat
    BY <1>1, TestingFinite
  <2>3. Len(pool'.available) = Len(free) + k
    BY <1>7, <1>14
  <2>4. Asleep # {} => Len(free) <= pool.owed + Cardinality(Testing)
    BY DEF PoolInv, WakeInv
  <2> HIDE DEF free
  <2> QED
    BY <2>1, <2>2, <2>3, <2>4, <1>14, <1>1, <1>3 DEF WakeInv
<1> QED
  BY <1>15, <1>16, <1>17, <1>18 DEF PoolInv

\* A packet that takes a buffer takes it out of the pool, and looks no longer.
LEMMA AcquireStep ==
  ASSUME PoolInv, NEW t \in Takers, Acquire(t)
  PROVE  PoolInv'
<1> DEFINE free == pool.available
<1>1. /\ pool \in [available : Seq(1 .. Buffers), owed : Nat, stop : BOOLEAN, policy : {"Block", "Drop"}]
      /\ taker \in [Takers -> [place : Places, buffer : Lease]]
  BY DEF PoolInv, PoolTypes
<1>2. taker[t].place = "test" /\ taker[t].buffer = {}
  BY DEF Acquire, PoolInv, IdleInv
<1>3. OwnInv /\ IdleInv /\ WakeInv
  BY DEF PoolInv
<1>4. CASE free # << >>
  <2> DEFINE last == Last(free)
             rest == Front(free)
  <2>1. /\ last \in ToSet(free) /\ last \in 1 .. Buffers
        /\ rest \in Seq(1 .. Buffers) /\ Len(rest) = Len(free) - 1
        /\ IsInjective(rest) /\ ToSet(rest) = ToSet(free) \ {last}
    BY <1>1, <1>3, <1>4, TakeLast DEF OwnInv
  <2>2. taker' = [taker EXCEPT ![t] = [place |-> "leased", buffer |-> {last}]]
        /\ pool' = [pool EXCEPT !.available = rest]
    BY <1>4 DEF Acquire
  <2> HIDE DEF last, rest, free
  <2>3. /\ pool' \in [available : Seq(1 .. Buffers), owed : Nat, stop : BOOLEAN, policy : {"Block", "Drop"}]
        /\ pool'.available = rest /\ pool'.owed = pool.owed
    BY <1>1, <2>1, <2>2
  <2>4. /\ taker'[t].place = "leased" /\ taker'[t].buffer = {last}
        /\ \A u \in Takers : u # t => taker'[u] = taker[u]
    BY <1>1, <2>2
  <2>5. PoolTypes'
    <3>1. {last} \in Lease
      BY <2>1 DEF Lease
    <3>2. taker' \in [Takers -> [place : Places, buffer : Lease]]
      BY <1>1, <2>2, <3>1 DEF Places
    <3> QED
      BY <2>3, <3>2 DEF PoolTypes
  <2>6. OwnInv'
    <3>1. IsInjective(pool'.available) /\ ToSet(pool'.available) = ToSet(free) \ {last}
      BY <2>1, <2>3
    <3>2. \A u \in Takers : u # t => last \notin taker[u].buffer
      BY <1>3, <2>1 DEF OwnInv, free
    <3>3. \A u \in Takers : taker'[u].buffer \cap ToSet(pool'.available) = {}
      BY <1>3, <2>4, <3>1 DEF OwnInv, free
    <3>4. \A u, v \in Takers : u # v => taker'[u].buffer \cap taker'[v].buffer = {}
      BY <1>3, <2>4, <3>2 DEF OwnInv
    <3>5. \A b \in 1 .. Buffers : b \in ToSet(pool'.available) \/ \E u \in Takers : b \in taker'[u].buffer
      <4> TAKE b \in 1 .. Buffers
      <4>1. CASE b \in ToSet(free)
        BY <4>1, <2>4, <3>1
      <4>2. CASE b \notin ToSet(free)
        <5>1. PICK u \in Takers : b \in taker[u].buffer
          BY <1>3, <4>2 DEF OwnInv, free
        <5>2. u # t
          BY <1>2, <5>1
        <5> QED
          BY <2>4, <5>1, <5>2
      <4> QED
        BY <4>1, <4>2
    <3> QED
      BY <3>1, <3>3, <3>4, <3>5 DEF OwnInv
  <2>7. IdleInv'
    BY <1>3, <2>4 DEF IdleInv
  <2>8. WakeInv'
    <3>1. Asleep' = Asleep /\ Testing' = Testing \ {t} /\ t \in Testing
      BY <1>2, <2>4 DEF Asleep, Testing
    <3>2. Cardinality(Testing') = Cardinality(Testing) - 1 /\ Cardinality(Testing) \in Nat
      BY <3>1, TestingFinite, FS_RemoveElement
    <3>3. Len(pool'.available) = Len(free) - 1 /\ Len(free) \in Nat
      BY <1>1, <2>1, <2>3 DEF free
    <3>4. Asleep # {} => Len(free) <= pool.owed + Cardinality(Testing)
      BY <1>3 DEF WakeInv, free
    <3> QED
      BY <3>1, <3>2, <3>3, <3>4, <2>3, <1>1 DEF WakeInv
  <2> QED
    BY <2>5, <2>6, <2>7, <2>8 DEF PoolInv
<1>5. CASE free = << >>
  <2>1. PICK place \in {"exhausted", "cancelled", "asleep"} :
            taker' = [taker EXCEPT ![t].place = place] /\ UNCHANGED pool
    BY <1>5 DEF Acquire
  <2>2. /\ taker'[t].place = place /\ taker'[t].buffer = {}
        /\ \A u \in Takers : u # t => taker'[u] = taker[u]
    BY <1>1, <1>2, <2>1
  <2>3. PoolTypes'
    <3>1. taker' \in [Takers -> [place : Places, buffer : Lease]]
      BY <1>1, <2>1 DEF Places
    <3> QED
      BY <1>1, <2>1, <3>1 DEF PoolTypes
  <2>4. \A u \in Takers : taker'[u].buffer = taker[u].buffer
    BY <1>2, <2>2
  <2>5. OwnInv'
    BY <1>3, <2>1, <2>4 DEF OwnInv
  <2>6. IdleInv'
    BY <1>3, <2>2 DEF IdleInv
  <2>7. WakeInv'
    <3>1. Testing' \in SUBSET Testing
      BY <1>2, <2>2 DEF Testing
    <3>2. Cardinality(Testing') \in Nat
      BY <3>1, TestingFinite, FS_Subset, FS_CardinalityType
    <3>3. Len(pool'.available) = 0 /\ pool'.owed \in Nat
      BY <1>1, <1>5, <2>1
    <3> QED
      BY <3>2, <3>3 DEF WakeInv
  <2> QED
    BY <2>3, <2>5, <2>6, <2>7 DEF PoolInv
<1> QED
  BY <1>4, <1>5

\* A notification wakes a packet that then looks, or finds nobody asleep.
LEMMA NotifyStep ==
  ASSUME PoolInv, Notify
  PROVE  PoolInv'
<1>1. /\ pool \in [available : Seq(1 .. Buffers), owed : Nat, stop : BOOLEAN, policy : {"Block", "Drop"}]
      /\ taker \in [Takers -> [place : Places, buffer : Lease]]
  BY DEF PoolInv, PoolTypes
<1>2. OwnInv /\ IdleInv /\ WakeInv
  BY DEF PoolInv
<1>3. /\ pool' = [pool EXCEPT !.owed = pool.owed - 1] /\ pool.owed - 1 \in Nat
      /\ pool'.available = pool.available /\ pool'.owed = pool.owed - 1
  BY <1>1 DEF Notify
<1>4. pool' \in [available : Seq(1 .. Buffers), owed : Nat, stop : BOOLEAN, policy : {"Block", "Drop"}]
  BY <1>1, <1>3
<1>5. CASE Asleep = {} /\ UNCHANGED taker
  BY <1>1, <1>2, <1>3, <1>4, <1>5 DEF PoolInv, PoolTypes, OwnInv, IdleInv, WakeInv, Asleep
<1>6. ASSUME NEW t \in Asleep, taker' = [taker EXCEPT ![t].place = "test"]
      PROVE  PoolInv'
  <2>1. t \in Takers /\ taker[t].place = "asleep"
    BY DEF Asleep
  <2>2. /\ taker'[t].place = "test" /\ taker'[t].buffer = taker[t].buffer
        /\ \A u \in Takers : u # t => taker'[u] = taker[u]
    BY <1>1, <1>6, <2>1
  <2>3. PoolTypes'
    <3>1. taker' \in [Takers -> [place : Places, buffer : Lease]]
      BY <1>1, <1>6 DEF Places
    <3> QED
      BY <1>4, <3>1 DEF PoolTypes
  <2>4. \A u \in Takers : taker'[u].buffer = taker[u].buffer
    BY <2>2
  <2>5. OwnInv'
    BY <1>2, <1>3, <2>4 DEF OwnInv
  <2>6. IdleInv'
    BY <1>2, <2>1, <2>2 DEF IdleInv
  <2>7. WakeInv'
    <3>1. Testing' = Testing \cup {t} /\ t \notin Testing
      BY <2>1, <2>2 DEF Testing
    <3>2. Cardinality(Testing') = Cardinality(Testing) + 1 /\ Cardinality(Testing) \in Nat
      BY <3>1, TestingFinite, FS_AddElement
    <3>3. Len(pool.available) <= pool.owed + Cardinality(Testing)
      BY <1>2, <1>6 DEF WakeInv
    <3>4. Len(pool.available) \in Nat /\ pool.owed \in Nat
      BY <1>1
    <3> QED
      BY <3>2, <3>3, <3>4, <1>3 DEF WakeInv
  <2> QED
    BY <2>3, <2>5, <2>6, <2>7 DEF PoolInv
<1> QED
  BY <1>5, <1>6 DEF Notify

\* After a stop nobody is asleep.
LEMMA StopStep ==
  ASSUME PoolInv, RequestStop
  PROVE  PoolInv'
<1>1. /\ pool \in [available : Seq(1 .. Buffers), owed : Nat, stop : BOOLEAN, policy : {"Block", "Drop"}]
      /\ taker \in [Takers -> [place : Places, buffer : Lease]]
  BY DEF PoolInv, PoolTypes
<1>2. OwnInv /\ IdleInv
  BY DEF PoolInv
<1>3. pool' = [pool EXCEPT !.stop = TRUE] /\ pool'.available = pool.available
  BY <1>1 DEF RequestStop
<1>4. pool' \in [available : Seq(1 .. Buffers), owed : Nat, stop : BOOLEAN, policy : {"Block", "Drop"}]
  BY <1>1, <1>3
<1>5. /\ taker' = [t \in Takers |-> IF t \in Asleep THEN [taker[t] EXCEPT !.place = "test"] ELSE taker[t]]
      /\ \A t \in Takers : /\ taker'[t].buffer = taker[t].buffer
                           /\ taker[t].place = "asleep" => taker'[t].place = "test"
                           /\ taker[t].place # "asleep" => taker'[t] = taker[t]
  BY <1>1 DEF RequestStop, Asleep
<1>6. PoolTypes'
  <2>1. \A t \in Takers : taker'[t] \in [place : Places, buffer : Lease]
    BY <1>1, <1>5 DEF Places
  <2> QED
    BY <1>4, <1>5, <2>1 DEF PoolTypes
<1>7. OwnInv'
  BY <1>2, <1>3, <1>5 DEF OwnInv
<1>8. IdleInv'
  BY <1>2, <1>5 DEF IdleInv
<1>9. WakeInv'
  <2>1. Asleep' = {}
    BY <1>5 DEF Asleep
  <2> QED
    BY <2>1 DEF WakeInv
<1> QED
  BY <1>6, <1>7, <1>8, <1>9 DEF PoolInv

\* The pool is in order after any step.
LEMMA PoolInvStep ==
  ASSUME PoolInv, PoolStep
  PROVE  PoolInv'
<1>1. CASE UNCHANGED <<pool, taker>>
  BY <1>1 DEF PoolInv, PoolTypes, OwnInv, IdleInv, WakeInv, Asleep, Testing
<1> QED
  BY <1>1, AcquireStep, GiveBackStep, NotifyStep, StopStep DEF PoolStep
-----------------------------------------------------------------------------
(* The packets.  A step looks at the pool, begins an execution, moves some *)
(* packets on, or finishes one.                                            *)

Types == PoolTypes /\ PacketTypes

Settled == {"leased", "exhausted", "cancelled"}

Look ==
    /\ UNCHANGED <<packet, timing>>
    /\ \A t \in Takers : taker[t].place \in Settled => taker'[t] = taker[t]

\* The packets of members go on to a later stage, without their leases when
\* the camera frame is over.
Move(members) ==
    /\ members # {} /\ members \subseteq Takers
    /\ UNCHANGED timing
    /\ packet' \in [Takers -> PacketRecord]
    /\ \A t \in Takers : taker'[t].place = taker[t].place
    /\ \A t \in Takers : taker'[t].buffer \in {taker[t].buffer, {}}
    /\ \A t \in Takers \ members : packet'[t] = packet[t]
    /\ \A t \in members :
          /\ taker[t].place = "leased"
          /\ packet[t].stage \in {"new", "preprocess", "prepared", "inferred", "finish"}
          /\ packet'[t].stage \in {"prepared", "inferred", "finish", "done", "cancelled"}
          /\ packet'[t].stage = "finish" => packet'[t].calls > 0
          /\ packet'[t].stage = "done" => t \notin timing.running
          /\ packet'[t].stage = "cancelled" => packet[t].stage = "new" \/ timing.mode = "batch"
          /\ FrameGone(t)' => taker'[t].buffer = {}

\* What a lease that ends does to the packets' takers.
LEMMA GiveBackTaker ==
  ASSUME Types, NEW members \in SUBSET Takers,
         taker' = [t \in Takers |-> IF t \in members THEN [taker[t] EXCEPT !.buffer = {}] ELSE taker[t]]
  PROVE  \A t \in Takers : /\ taker'[t].place = taker[t].place
                           /\ taker'[t].buffer \in {taker[t].buffer, {}}
                           /\ t \in members => taker'[t].buffer = {}
<1> TAKE t \in Takers
<1>1. taker[t] \in [place : Places, buffer : Lease]
  BY DEF Types, PoolTypes
<1>2. /\ t \in members => taker'[t] = [taker[t] EXCEPT !.buffer = {}]
      /\ t \notin members => taker'[t] = taker[t]
  OBVIOUS
<1>3. /\ [taker[t] EXCEPT !.buffer = {}].place = taker[t].place
      /\ [taker[t] EXCEPT !.buffer = {}].buffer = {}
  BY <1>1
<1> QED
  BY <1>2, <1>3

\* Release() changes its own taker only.
LEMMA ReleaseTaker ==
  ASSUME Types, NEW t \in Takers, Release(t)
  PROVE  /\ GiveBack({t})
         /\ \A u \in Takers : taker'[u].place = taker[u].place /\ taker'[u].buffer \in {taker[u].buffer, {}}
         /\ taker'[t].buffer = {}
<1>1. GiveBack({t})
  BY ReleaseGivesBack DEF Types
<1>2. taker' = [u \in Takers |-> IF u \in {t} THEN [taker[u] EXCEPT !.buffer = {}] ELSE taker[u]]
  BY <1>1 DEF GiveBack
<1> QED
  BY <1>1, <1>2, GiveBackTaker

\* One packet moves on: the others are as they were.
LEMMA OneMoves ==
  ASSUME Types, NEW t \in Takers, NEW moved \in PacketRecord, UNCHANGED timing,
         packet' = [packet EXCEPT ![t] = moved],
         UNCHANGED <<pool, taker>> \/ Release(t),
         taker[t].place = "leased",
         packet[t].stage \in {"new", "preprocess", "prepared", "inferred", "finish"},
         moved.stage \in {"prepared", "inferred", "finish", "done", "cancelled"},
         moved.stage = "finish" => moved.calls > 0,
         moved.stage = "done" => t \notin timing.running,
         moved.stage = "cancelled" => packet[t].stage = "new" \/ timing.mode = "batch",
         ~Release(t) /\ FrameGone(t)' => taker[t].buffer = {}
  PROVE  Move({t}) /\ PoolStep
<1>1. packet \in [Takers -> PacketRecord]
  BY DEF Types, PacketTypes
<1>2. /\ packet' \in [Takers -> PacketRecord] /\ packet'[t] = moved
      /\ \A u \in Takers \ {t} : packet'[u] = packet[u]
  BY <1>1
<1>3. /\ \A u \in Takers : taker'[u].place = taker[u].place /\ taker'[u].buffer \in {taker[u].buffer, {}}
      /\ FrameGone(t)' => taker'[t].buffer = {}
  BY ReleaseTaker
<1>4. PoolStep
  BY ReleaseTaker DEF PoolStep
<1> QED
  BY <1>2, <1>3, <1>4 DEF Move

\* A stage of a packet is written into its record.
LEMMA StageWritten ==
  ASSUME Types, NEW t \in Takers, NEW stage \in Stages
  PROVE  /\ [packet EXCEPT ![t].stage = stage] = [packet EXCEPT ![t] = [packet[t] EXCEPT !.stage = stage]]
         /\ [packet[t] EXCEPT !.stage = stage] \in PacketRecord
         /\ [packet[t] EXCEPT !.stage = stage].stage = stage
         /\ [packet[t] EXCEPT !.stage = stage].calls = packet[t].calls
         /\ [packet[t] EXCEPT !.stage = stage].failed = packet[t].failed
<1>1. packet[t] \in PacketRecord /\ packet \in [Takers -> PacketRecord]
  BY DEF Types, PacketTypes
<1> QED
  BY <1>1 DEF PacketRecord

\* The packet that is over waits for its calls.
LEMMA OverMoves ==
  ASSUME Types, NEW t \in Takers, NEW calls \in {1, 2}, NEW failed \in BOOLEAN,
         Over(t, calls, failed), UNCHANGED timing, taker[t].place = "leased",
         packet[t].stage \in {"new", "preprocess", "prepared", "inferred"}
  PROVE  Move({t}) /\ PoolStep
<1> DEFINE moved == [stage |-> "finish", failed |-> failed, calls |-> calls]
<1>1. moved \in PacketRecord
  BY DEF PacketRecord, Stages
<1>2. packet' = [packet EXCEPT ![t] = moved] /\ Release(t)
  BY DEF Over
<1>3. moved.stage = "finish" /\ moved.calls > 0
  OBVIOUS
<1> HIDE DEF moved
<1> QED
  BY <1>1, <1>2, <1>3, OneMoves

\* What preprocess() may do once its execution is begun.
LEMMA PrepareMoves ==
  ASSUME Types, NEW t \in Takers, Prepare(t) \/ PrepareFails(t)
  PROVE  Move({t}) /\ PoolStep
<1>1. CASE Prepare(t)
  <2> DEFINE moved == [packet[t] EXCEPT !.stage = "prepared"]
  <2>1. moved \in PacketRecord /\ moved.stage = "prepared"
    BY StageWritten DEF Stages
  <2>2. packet' = [packet EXCEPT ![t] = moved]
    BY <1>1, StageWritten DEF Prepare, Stages
  <2>3. packet'[t] = moved
    BY <2>2 DEF Types, PacketTypes
  <2> HIDE DEF moved
  <2>4. ~Release(t) => ~FrameGone(t)'
    BY <1>1, <2>1, <2>3 DEF Prepare, FrameGone
  <2>5. /\ taker[t].place = "leased" /\ packet[t].stage = "preprocess" /\ UNCHANGED timing
        /\ UNCHANGED <<pool, taker>> \/ Release(t)
    BY <1>1 DEF Prepare, At
  <2> QED
    BY <2>1, <2>2, <2>4, <2>5, OneMoves
<1>2. CASE PrepareFails(t)
  <2>1. \E calls \in {1, 2} : Over(t, calls, TRUE)
    BY <1>2 DEF PrepareFails
  <2> QED
    BY <1>2, <2>1, OverMoves DEF PrepareFails, At
<1> QED
  BY <1>1, <1>2

\* What infer() and postprocess() may do.
LEMMA InferMoves ==
  ASSUME Types, FrameInv, NEW t \in Takers, Infer(t) \/ Postprocess(t)
  PROVE  Move({t}) /\ PoolStep
<1>1. CASE Infer(t) /\ ~Over(t, 1, TRUE)
  <2> DEFINE moved == [packet[t] EXCEPT !.stage = "inferred"]
  <2>1. moved \in PacketRecord /\ moved.stage = "inferred"
    BY StageWritten DEF Stages
  <2>2. packet' = [packet EXCEPT ![t] = moved]
    BY <1>1, StageWritten DEF Infer, Stages
  <2>3. packet'[t] = moved
    BY <2>2 DEF Types, PacketTypes
  <2> HIDE DEF moved
  <2>4. /\ taker[t].place = "leased" /\ packet[t].stage = "prepared"
        /\ UNCHANGED <<pool, taker, timing>>
    BY <1>1 DEF Infer, At
  <2>5. FrameGone(t)' => taker[t].buffer = {}
    BY <2>1, <2>3, <2>4 DEF FrameGone, FrameInv
  <2> QED
    BY <2>1, <2>2, <2>4, <2>5, OneMoves
<1>2. CASE Infer(t) /\ Over(t, 1, TRUE)
  BY <1>2, OverMoves DEF Infer, At
<1>3. CASE Postprocess(t)
  BY <1>3, OverMoves DEF Postprocess, At
<1> QED
  BY <1>1, <1>2, <1>3

\* A cancelled task's packet dies where it is.
LEMMA CancelMoves ==
  ASSUME Types, NEW t \in Takers, Cancel(t)
  PROVE  Move({t}) /\ PoolStep
<1>1. /\ taker[t].place = "leased" /\ UNCHANGED timing
      /\ packet[t].stage \in {"new", "prepared", "inferred"}
      /\ packet[t].stage = "new" \/ timing.mode \in {"parallel", "batch"}
  BY DEF Cancel, Types, PacketTypes, PacketRecord, TimingRecord
<1>2. CASE timing.mode = "parallel"
  BY <1>1, <1>2, OverMoves DEF Cancel
<1>3. CASE timing.mode # "parallel"
  <2> DEFINE moved == [packet[t] EXCEPT !.stage = "cancelled"]
  <2>1. moved \in PacketRecord /\ moved.stage = "cancelled"
    BY StageWritten DEF Stages
  <2>2. packet' = [packet EXCEPT ![t] = moved] /\ Release(t)
    BY <1>3, StageWritten DEF Cancel, Stages
  <2> HIDE DEF moved
  <2> QED
    BY <1>1, <1>3, <2>1, <2>2, OneMoves
<1> QED
  BY <1>2, <1>3

\* A call of finishExecution that finds no timing.
LEMMA FinishUnknownMoves ==
  ASSUME Types, FrameInv, StageInv, NEW t \in Takers, FinishUnknown(t)
  PROVE  Move({t}) /\ PoolStep
<1> DEFINE moved == [packet[t] EXCEPT !.calls = packet[t].calls - 1, !.stage = Called(t, "finish")]
<1>1. packet[t] \in PacketRecord /\ packet \in [Takers -> PacketRecord]
  BY DEF Types, PacketTypes
<1>2. /\ packet[t].stage = "finish" /\ taker[t].place = "leased"
      /\ t \notin timing.running /\ UNCHANGED <<pool, taker, timing>>
  BY DEF FinishUnknown, At
<1>3. packet[t].calls \in Nat /\ packet[t].calls > 0
  BY <1>1, <1>2 DEF StageInv, PacketRecord
<1>4. packet' = [packet EXCEPT ![t] = moved]
  BY <1>1 DEF FinishUnknown
<1>5. Called(t, "finish") \in {"done", "finish"} /\ (Called(t, "finish") = "finish" => packet[t].calls - 1 > 0)
  BY <1>3 DEF Called
<1>6. moved \in PacketRecord /\ moved.stage = Called(t, "finish") /\ moved.calls = packet[t].calls - 1
  <2>1. packet[t].calls - 1 \in Nat /\ Called(t, "finish") \in Stages
    BY <1>3, <1>5 DEF Stages
  <2> HIDE DEF Called
  <2> QED
    BY <1>1, <2>1 DEF PacketRecord
<1>7. taker[t].buffer = {}
  BY <1>2 DEF FrameInv, FrameGone
<1> HIDE DEF moved
<1> QED
  BY <1>2, <1>4, <1>5, <1>6, <1>7, OneMoves

\* A batch goes on as one, or dies as one.
LEMMA BatchMoves ==
  ASSUME Types, FrameInv, NEW members \in (SUBSET Takers) \ {{}},
         InferBatch(members) \/ InferBatchFails(members)
  PROVE  Move(members) /\ PoolStep
<1>1. \A t \in Takers : packet[t] \in PacketRecord
  BY DEF Types, PacketTypes
<1>2. /\ members # {} /\ members \subseteq Takers /\ UNCHANGED timing
      /\ \A t \in members : taker[t].place = "leased" /\ packet[t].stage = "prepared"
  BY DEF InferBatch, InferBatchFails, At
<1>3. CASE InferBatch(members)
  <2>1. packet' = [t \in Takers |-> IF t \in members THEN [packet[t] EXCEPT !.stage = "inferred"] ELSE packet[t]]
        /\ UNCHANGED <<pool, taker>>
    BY <1>3 DEF InferBatch
  <2>2. \A t \in Takers : /\ [packet[t] EXCEPT !.stage = "inferred"] \in PacketRecord
                          /\ [packet[t] EXCEPT !.stage = "inferred"].stage = "inferred"
    BY StageWritten DEF Stages
  <2>3. /\ packet' \in [Takers -> PacketRecord]
        /\ \A t \in Takers \ members : packet'[t] = packet[t]
        /\ \A t \in members : packet'[t].stage = "inferred"
    BY <1>1, <2>1, <2>2
  <2>4. \A t \in members : FrameGone(t)' => taker'[t].buffer = {}
    BY <1>2, <2>1, <2>3 DEF FrameGone, FrameInv
  <2> QED
    BY <1>2, <2>1, <2>3, <2>4 DEF Move, PoolStep
<1>4. CASE InferBatchFails(members)
  <2>1. packet' = [t \in Takers |-> IF t \in members
                                    THEN [stage |-> "finish", failed |-> TRUE, calls |-> 1]
                                    ELSE packet[t]]
        /\ GiveBack(members)
    BY <1>4 DEF InferBatchFails, GiveBack
  <2>2. [stage |-> "finish", failed |-> TRUE, calls |-> 1] \in PacketRecord
    BY DEF PacketRecord, Stages
  <2>3. /\ packet' \in [Takers -> PacketRecord]
        /\ \A t \in Takers \ members : packet'[t] = packet[t]
        /\ \A t \in members : packet'[t].stage = "finish" /\ packet'[t].calls > 0
    BY <1>1, <2>1, <2>2
  <2>4. \A t \in Takers : /\ taker'[t].place = taker[t].place
                          /\ taker'[t].buffer \in {taker[t].buffer, {}}
                          /\ t \in members => taker'[t].buffer = {}
    BY <1>2, <2>1, GiveBackTaker DEF GiveBack
  <2> QED
    BY <1>2, <2>1, <2>3, <2>4 DEF Move, PoolStep
<1> QED
  BY <1>3, <1>4

\* A packet that looks at the pool, and what wakes it.
LEMMA PoolLooks ==
  ASSUME Types, (\E t \in Takers : Take(t)) \/ Wake
  PROVE  Look /\ PoolStep
<1>1. \A t \in Takers : taker[t].place \in Settled => taker[t].place # "test" /\ t \notin Asleep
  BY DEF Settled, Asleep
<1>2. DOMAIN taker = Takers
  BY DEF Types, PoolTypes
<1>3. ASSUME NEW t \in Takers, Take(t) PROVE Look /\ PoolStep
  <2>1. Acquire(t) /\ UNCHANGED <<packet, timing>> /\ taker[t].place = "test"
    BY <1>3 DEF Take, Acquire
  <2>2. \A u \in Takers \ {t} : taker'[u] = taker[u]
    BY <2>1, <1>2 DEF Acquire
  <2> QED
    BY <1>1, <2>1, <2>2 DEF Look, PoolStep
<1>4. CASE Notify /\ UNCHANGED <<packet, timing>>
  <2>1. \A u \in Takers \ Asleep : taker'[u] = taker[u]
    BY <1>4, <1>2 DEF Notify
  <2> QED
    BY <1>1, <1>4, <2>1 DEF Look, PoolStep
<1>5. CASE RequestStop /\ UNCHANGED <<packet, timing>>
  <2>1. \A u \in Takers \ Asleep : taker'[u] = taker[u]
    BY <1>5, <1>2 DEF RequestStop
  <2> QED
    BY <1>1, <1>5, <2>1 DEF Look, PoolStep
<1> QED
  BY <1>3, <1>4, <1>5 DEF Wake

\* Every step is one of these.
LEMMA StepKinds ==
  ASSUME Types, FrameInv, StageInv, [PipelineNext]_pipelineVars
  PROVE  /\ PoolStep
         /\ \/ Look
            \/ \E members \in SUBSET Takers : Move(members)
            \/ \E t \in Takers : Begin(t) \/ FinishErase(t) \/ FinishCount(t)
            \/ FinishBatch
<1>1. CASE UNCHANGED pipelineVars
  BY <1>1 DEF pipelineVars, Look, PoolStep
<1>2. CASE (\E t \in Takers : Take(t)) \/ Wake
  BY <1>2, PoolLooks
<1>3. ASSUME NEW t \in Takers,
             Prepare(t) \/ PrepareFails(t) \/ Infer(t) \/ Postprocess(t) \/ Cancel(t) \/ FinishUnknown(t)
      PROVE  Move({t}) /\ PoolStep
  BY <1>3, PrepareMoves, InferMoves, CancelMoves, FinishUnknownMoves
<1>4. ASSUME NEW t \in Takers, Begin(t) \/ FinishErase(t) \/ FinishCount(t)
      PROVE  PoolStep
  BY <1>4 DEF Begin, FinishErase, FinishCount, PoolStep
<1>5. CASE FinishBatch
  BY <1>5 DEF FinishBatch, PoolStep
<1>6. ASSUME NEW members \in (SUBSET Takers) \ {{}}, InferBatch(members) \/ InferBatchFails(members)
      PROVE  Move(members) /\ PoolStep
  BY <1>6, BatchMoves
<1> QED
  BY <1>1, <1>2, <1>3, <1>4, <1>5, <1>6 DEF PipelineNext
\* What begins or finishes an execution writes one packet's record.
LEMMA OneWrites ==
  ASSUME Types, StageInv, NEW t \in Takers, Begin(t) \/ FinishErase(t) \/ FinishCount(t)
  PROVE  /\ packet' \in [Takers -> PacketRecord]
         /\ \A u \in Takers \ {t} : packet'[u] = packet[u]
         /\ Begin(t) => packet[t].stage = "new" /\ packet'[t].stage = "preprocess"
         /\ FinishErase(t) => /\ packet[t].stage = "finish" /\ packet'[t].stage = "count"
                              /\ packet'[t].calls = packet[t].calls
         /\ FinishCount(t) => /\ packet[t].stage = "count" /\ packet'[t].stage \in {"finish", "done"}
                              /\ packet'[t].stage = "finish" => packet'[t].calls > 0
<1>1. packet[t] \in PacketRecord /\ packet \in [Takers -> PacketRecord]
  BY DEF Types, PacketTypes
<1>2. CASE Begin(t)
  <2> DEFINE moved == [packet[t] EXCEPT !.stage = "preprocess"]
  <2>1. packet' = [packet EXCEPT ![t] = moved] /\ moved \in PacketRecord /\ moved.stage = "preprocess"
    BY <1>2, StageWritten DEF Begin, Stages
  <2>2. packet[t].stage = "new" /\ ~FinishErase(t) /\ ~FinishCount(t)
    BY <1>2 DEF Begin, At, FinishErase, FinishCount
  <2> HIDE DEF moved
  <2> QED
    BY <1>1, <2>1, <2>2
<1>3. CASE FinishErase(t)
  <2> DEFINE moved == [packet[t] EXCEPT !.stage = "count"]
  <2>1. /\ packet' = [packet EXCEPT ![t] = moved] /\ moved \in PacketRecord
        /\ moved.stage = "count" /\ moved.calls = packet[t].calls
    BY <1>3, StageWritten DEF FinishErase, Stages
  <2>2. packet[t].stage = "finish" /\ ~Begin(t) /\ ~FinishCount(t)
    BY <1>3 DEF Begin, At, FinishErase, FinishCount
  <2> HIDE DEF moved
  <2> QED
    BY <1>1, <2>1, <2>2
<1>4. CASE FinishCount(t)
  <2> DEFINE moved == [packet[t] EXCEPT !.calls = packet[t].calls - 1, !.stage = Called(t, "finish")]
  <2>1. packet' = [packet EXCEPT ![t] = moved]
    BY <1>1, <1>4 DEF FinishCount
  <2>2. packet[t].stage = "count" /\ ~Begin(t) /\ ~FinishErase(t)
    BY <1>4 DEF Begin, At, FinishErase, FinishCount
  <2>3. packet[t].calls \in Nat /\ packet[t].calls > 0
    BY <1>1, <2>2 DEF StageInv, PacketRecord
  <2>4. Called(t, "finish") \in {"done", "finish"} /\ (Called(t, "finish") = "finish" => packet[t].calls - 1 > 0)
    BY <2>3 DEF Called
  <2>5. moved \in PacketRecord /\ moved.stage = Called(t, "finish") /\ moved.calls = packet[t].calls - 1
    <3>1. packet[t].calls - 1 \in Nat /\ Called(t, "finish") \in Stages
      BY <2>3, <2>4 DEF Stages
    <3> HIDE DEF Called
    <3> QED
      BY <1>1, <3>1 DEF PacketRecord
  <2> HIDE DEF moved
  <2> QED
    BY <1>1, <2>1, <2>2, <2>4, <2>5
<1> QED
  BY <1>2, <1>3, <1>4

-----------------------------------------------------------------------------
(* Invariance.                                                             *)

\* The records of packets and timings stay records.
LEMMA TypesStep ==
  ASSUME Types, FrameInv, StageInv, [PipelineNext]_pipelineVars
  PROVE  PacketTypes'
<1>1. packet \in [Takers -> PacketRecord] /\ timing \in TimingRecord
  BY DEF Types, PacketTypes
<1> SUFFICES packet' \in [Takers -> PacketRecord] /\ timing' \in TimingRecord
  BY DEF PacketTypes
<1>2. CASE Look \/ FinishBatch \/ \E members \in SUBSET Takers : Move(members)
  BY <1>1, <1>2 DEF Look, FinishBatch, Move, TimingRecord
<1>3. ASSUME NEW t \in Takers, Begin(t) PROVE packet' \in [Takers -> PacketRecord] /\ timing' \in TimingRecord
  <2>1. packet' \in [Takers -> PacketRecord]
    BY <1>3, OneWrites
  <2>2. timing' = [timing EXCEPT !.begun = timing.begun \cup {t}, !.running = timing.running \cup {t}]
    BY <1>3 DEF Begin
  <2> QED
    BY <1>1, <2>1, <2>2 DEF TimingRecord
<1>4. ASSUME NEW t \in Takers, FinishErase(t)
      PROVE  packet' \in [Takers -> PacketRecord] /\ timing' \in TimingRecord
  <2>1. packet' \in [Takers -> PacketRecord]
    BY <1>4, OneWrites
  <2>2. timing' = [timing EXCEPT !.running = timing.running \ {t}]
    BY <1>4 DEF FinishErase
  <2> QED
    BY <1>1, <2>1, <2>2 DEF TimingRecord
<1>5. ASSUME NEW t \in Takers, FinishCount(t)
      PROVE  packet' \in [Takers -> PacketRecord] /\ timing' \in TimingRecord
  <2>1. packet' \in [Takers -> PacketRecord]
    BY <1>5, OneWrites
  <2>2. timing' = [timing EXCEPT !.completed = timing.completed + 1,
                                 !.failed = timing.failed + (IF packet[t].failed THEN 1 ELSE 0)]
    BY <1>5 DEF FinishCount
  <2>3. timing.completed + 1 \in Nat /\ timing.failed + (IF packet[t].failed THEN 1 ELSE 0) \in Nat
    BY <1>1 DEF TimingRecord
  <2> QED
    BY <1>1, <2>1, <2>2, <2>3 DEF TimingRecord
<1> QED
  BY <1>2, <1>3, <1>4, <1>5, StepKinds

\* A packet whose camera frame is over has no buffer, whichever way it went.
LEMMA FrameInvStep ==
  ASSUME Types, FrameInv, StageInv, [PipelineNext]_pipelineVars
  PROVE  FrameInv'
<1>1. CASE Look
  <2>1. \A t \in Takers : FrameGone(t)' => taker[t].place \in Settled
    BY <1>1 DEF Look, FrameGone, StageInv, Settled
  <2> QED
    BY <1>1, <2>1 DEF Look, FrameInv, FrameGone
<1>2. ASSUME NEW members \in SUBSET Takers, Move(members) PROVE FrameInv'
  <2> SUFFICES ASSUME NEW t \in Takers, FrameGone(t)' PROVE taker'[t].buffer = {}
    BY DEF FrameInv
  <2>1. CASE t \in members
    BY <1>2, <2>1 DEF Move
  <2>2. CASE t \notin members
    <3>1. FrameGone(t) /\ taker'[t].buffer \in {taker[t].buffer, {}}
      BY <1>2, <2>2 DEF Move, FrameGone
    <3> QED
      BY <3>1 DEF FrameInv
  <2> QED
    BY <2>1, <2>2
<1>3. ASSUME NEW t \in Takers, Begin(t) \/ FinishErase(t) \/ FinishCount(t) PROVE FrameInv'
  <2>1. timing'.camera = timing.camera /\ UNCHANGED taker
    BY <1>3 DEF Begin, FinishErase, FinishCount, Types, PacketTypes, PacketRecord, TimingRecord
  <2>2. /\ \A u \in Takers \ {t} : packet'[u] = packet[u]
        /\ packet'[t].stage = "preprocess" \/ packet[t].stage \in {"finish", "count"}
    BY <1>3, OneWrites
  <2>3. \A u \in Takers : FrameGone(u)' => FrameGone(u)
    BY <2>1, <2>2 DEF FrameGone
  <2> QED
    BY <2>1, <2>3 DEF FrameInv
<1>4. CASE FinishBatch
  <2>1. timing'.camera = timing.camera /\ UNCHANGED <<packet, taker>>
    BY <1>4 DEF FinishBatch, Types, PacketTypes, PacketRecord, TimingRecord
  <2> QED
    BY <2>1 DEF FrameInv, FrameGone
<1> QED
  BY <1>1, <1>2, <1>3, <1>4, StepKinds
\* The parts of the timings that a step writes.
LEMMA TimingWrites ==
  ASSUME Types, NEW t \in Takers
  PROVE  /\ Begin(t) => /\ timing' = [timing EXCEPT !.begun = timing'.begun, !.running = timing'.running]
                        /\ timing'.begun = timing.begun \cup {t} /\ timing'.running = timing.running \cup {t}
         /\ FinishErase(t) => /\ timing' = [timing EXCEPT !.running = timing'.running]
                              /\ timing'.running = timing.running \ {t}
         /\ FinishCount(t) => /\ timing' = [timing EXCEPT !.completed = timing'.completed, !.failed = timing'.failed]
                              /\ timing'.completed = timing.completed + 1
                              /\ timing'.failed \in {timing.failed, timing.failed + 1}
         /\ FinishBatch => timing' = [timing EXCEPT !.reported = TRUE] /\ timing'.reported
<1>1. timing \in TimingRecord
  BY DEF Types, PacketTypes, TimingRecord, PacketRecord
<1>2. CASE Begin(t)
  <2>1. timing' = [timing EXCEPT !.begun = timing.begun \cup {t}, !.running = timing.running \cup {t}]
    BY <1>2 DEF Begin
  <2>2. ~FinishErase(t) /\ ~FinishCount(t)
    BY <1>2 DEF Begin, FinishErase, FinishCount, At
  <2>3. ~FinishBatch
    BY <1>2 DEF Begin, FinishBatch, Finished, At
  <2> QED
    BY <1>1, <2>1, <2>2, <2>3 DEF TimingRecord
<1>3. CASE FinishErase(t)
  <2>1. timing' = [timing EXCEPT !.running = timing.running \ {t}]
    BY <1>3 DEF FinishErase
  <2>2. ~Begin(t) /\ ~FinishCount(t)
    BY <1>3 DEF Begin, FinishErase, FinishCount, At
  <2>3. ~FinishBatch
    BY <1>3 DEF FinishErase, FinishBatch, Finished, At
  <2> QED
    BY <1>1, <2>1, <2>2, <2>3 DEF TimingRecord
<1>4. CASE FinishCount(t)
  <2> DEFINE more == timing.failed + (IF packet[t].failed THEN 1 ELSE 0)
  <2>1. timing' = [timing EXCEPT !.completed = timing.completed + 1, !.failed = more]
    BY <1>4 DEF FinishCount
  <2>2. ~Begin(t) /\ ~FinishErase(t)
    BY <1>4 DEF Begin, FinishErase, FinishCount, At
  <2>3. ~FinishBatch
    BY <1>4 DEF FinishCount, FinishBatch, Finished, At
  <2>4. more \in {timing.failed, timing.failed + 1}
    BY <1>1 DEF TimingRecord
  <2> HIDE DEF more
  <2>5. /\ timing' = [timing EXCEPT !.completed = timing'.completed, !.failed = timing'.failed]
        /\ timing'.completed = timing.completed + 1 /\ timing'.failed = more
    BY <1>1, <2>1 DEF TimingRecord
  <2> QED
    BY <2>2, <2>3, <2>4, <2>5
<1>5. CASE FinishBatch
  <2>1. timing' = [timing EXCEPT !.reported = TRUE]
    BY <1>5 DEF FinishBatch
  <2>2. ~Begin(t) /\ ~FinishErase(t) /\ ~FinishCount(t)
    BY <1>5 DEF Begin, FinishErase, FinishCount, FinishBatch, Finished, At
  <2> QED
    BY <1>1, <2>1, <2>2 DEF TimingRecord
<1> QED
  BY <1>2, <1>3, <1>4, <1>5

\* A packet is past its timing once that is erased, and before it until it begins.
LEMMA StageInvStep ==
  ASSUME Types, FrameInv, StageInv, [PipelineNext]_pipelineVars
  PROVE  StageInv'
<1>1. CASE Look
  <2>1. \A t \in Takers : taker'[t].place # "leased" => taker[t].place # "leased"
    BY <1>1 DEF Look, Settled
  <2> QED
    BY <1>1, <2>1 DEF Look, StageInv
<1>2. ASSUME NEW members \in SUBSET Takers, Move(members) PROVE StageInv'
  <2>1. UNCHANGED timing /\ \A t \in Takers : taker'[t].place = taker[t].place
    BY <1>2 DEF Move
  <2>2. ASSUME NEW t \in Takers, t \notin members
        PROVE  packet'[t] = packet[t]
    BY <1>2, <2>2 DEF Move
  <2>3. ASSUME NEW t \in members
        PROVE  /\ taker[t].place = "leased"
               /\ packet'[t].stage \notin {"new", "count"}
               /\ packet'[t].stage = "done" => t \notin timing.running
               /\ packet'[t].stage = "finish" => packet'[t].calls > 0
               /\ packet'[t].stage = "cancelled" /\ t \in timing.running => timing.mode = "batch"
    BY <1>2 DEF Move, StageInv
  <2> QED
    BY <2>1, <2>2, <2>3 DEF StageInv
<1>3. ASSUME NEW t \in Takers, Begin(t) PROVE StageInv'
  <2>1. taker[t].place = "leased" /\ UNCHANGED taker
    BY <1>3 DEF Begin, At
  <2>2. /\ timing'.begun = timing.begun \cup {t} /\ timing'.running = timing.running \cup {t}
        /\ timing'.mode = timing.mode
    BY <1>3, TimingWrites DEF Types, PacketTypes, PacketRecord, TimingRecord
  <2> QED
    BY <1>3, <2>1, <2>2, OneWrites DEF StageInv
<1>4. ASSUME NEW t \in Takers, FinishErase(t) PROVE StageInv'
  <2>1. taker[t].place = "leased" /\ UNCHANGED taker
    BY <1>4 DEF FinishErase, At
  <2>2. /\ timing'.begun = timing.begun /\ timing'.running = timing.running \ {t}
        /\ timing'.mode = timing.mode
    BY <1>4, TimingWrites DEF Types, PacketTypes, PacketRecord, TimingRecord
  <2> QED
    BY <1>4, <2>1, <2>2, OneWrites DEF StageInv
<1>5. ASSUME NEW t \in Takers, FinishCount(t) PROVE StageInv'
  <2>1. taker[t].place = "leased" /\ UNCHANGED taker
    BY <1>5 DEF FinishCount, At
  <2>2. timing'.begun = timing.begun /\ timing'.running = timing.running /\ timing'.mode = timing.mode
    BY <1>5, TimingWrites DEF Types, PacketTypes, PacketRecord, TimingRecord
  <2> QED
    BY <1>5, <2>1, <2>2, OneWrites DEF StageInv
<1>6. CASE FinishBatch
  <2>1. /\ timing'.begun = timing.begun /\ timing'.running = timing.running /\ timing'.mode = timing.mode
        /\ UNCHANGED <<packet, taker>>
    BY <1>6 DEF FinishBatch, Types, PacketTypes, PacketRecord, TimingRecord
  <2> QED
    BY <2>1 DEF StageInv
<1> QED
  BY <1>1, <1>2, <1>3, <1>4, <1>5, <1>6, StepKinds

\* The executions that are still to be counted are finitely many.
LEMMA OpenFinite ==
  ASSUME Types
  PROVE  /\ IsFiniteSet(timing.running \cup Counting) /\ IsFiniteSet(timing.begun)
         /\ Cardinality(timing.running \cup Counting) \in Nat /\ Cardinality(timing.begun) \in Nat
<1>1. timing.running \cup Counting \in SUBSET Takers /\ timing.begun \in SUBSET Takers
  BY DEF Types, PacketTypes, Counting, PacketRecord, TimingRecord
<1> QED
  BY <1>1, FS_Subset, FS_CardinalityType, TakersAssumption

\* An execution is counted when its timing is gone, and only then.
LEMMA CountInvStep ==
  ASSUME Types, FrameInv, StageInv, CountInv, [PipelineNext]_pipelineVars
  PROVE  CountInv'
<1> DEFINE open == timing.running \cup Counting
<1>0. timing.completed \in Nat /\ timing.failed \in Nat
  BY DEF Types, PacketTypes, PacketRecord, TimingRecord
<1>f. /\ IsFiniteSet(open) /\ IsFiniteSet(timing.begun)
      /\ Cardinality(open) \in Nat /\ Cardinality(timing.begun) \in Nat
  BY OpenFinite
<1>1. CASE Look
  BY <1>1 DEF Look, CountInv, Counting
<1>2. ASSUME NEW members \in SUBSET Takers, Move(members) PROVE CountInv'
  <2>1. Counting' = Counting /\ UNCHANGED timing
    BY <1>2 DEF Move, Counting
  <2> QED
    BY <2>1 DEF CountInv
<1>3. ASSUME NEW t \in Takers, Begin(t) PROVE CountInv'
  <2>1. /\ timing'.begun = timing.begun \cup {t} /\ timing'.running = timing.running \cup {t}
        /\ timing'.completed = timing.completed /\ timing'.failed = timing.failed
    BY <1>3, TimingWrites DEF Types, PacketTypes, PacketRecord, TimingRecord
  <2>2. t \notin timing.begun /\ t \notin open /\ Counting' = Counting
    BY <1>3, OneWrites DEF StageInv, Counting
  <2>3. (timing.running \cup Counting)' = open \cup {t}
    BY <2>1, <2>2
  <2> HIDE DEF open
  <2>4. Cardinality(timing'.begun) = Cardinality(timing.begun) + 1
    BY <1>f, <2>1, <2>2, FS_AddElement
  <2>5. Cardinality(open \cup {t}) = Cardinality(open) + 1
    BY <1>f, <2>2, FS_AddElement
  <2>6. Cardinality((timing.running \cup Counting)') = Cardinality(open) + 1
    BY <2>3, <2>5
  <2> QED
    BY <1>0, <1>f, <2>1, <2>4, <2>6 DEF CountInv, open
<1>4. ASSUME NEW t \in Takers, FinishErase(t) PROVE CountInv'
  <2>1. /\ timing'.begun = timing.begun /\ timing'.running = timing.running \ {t}
        /\ timing'.completed = timing.completed /\ timing'.failed = timing.failed
    BY <1>4, TimingWrites DEF Types, PacketTypes, PacketRecord, TimingRecord
  <2>2. t \in timing.running /\ Counting' = Counting \cup {t}
    BY <1>4, OneWrites DEF FinishErase, Counting
  <2>3. (timing.running \cup Counting)' = open
    BY <2>1, <2>2
  <2> QED
    BY <2>1, <2>3 DEF CountInv
<1>5. ASSUME NEW t \in Takers, FinishCount(t) PROVE CountInv'
  <2>1. /\ timing'.begun = timing.begun /\ timing'.running = timing.running
        /\ timing'.completed = timing.completed + 1
        /\ timing'.failed \in {timing.failed, timing.failed + 1}
    BY <1>5, TimingWrites DEF Types, PacketTypes, PacketRecord, TimingRecord
  <2>2. t \in open /\ t \notin timing.running /\ Counting' = Counting \ {t}
    BY <1>5, OneWrites DEF StageInv, Counting
  <2>3. (timing.running \cup Counting)' = open \ {t}
    BY <2>1, <2>2
  <2> HIDE DEF open
  <2>4. Cardinality(open \ {t}) = Cardinality(open) - 1
    BY <1>f, <2>2, FS_RemoveElement
  <2>5. Cardinality((timing.running \cup Counting)') = Cardinality(open) - 1
    BY <2>3, <2>4
  <2> QED
    BY <1>0, <1>f, <2>1, <2>5 DEF CountInv, open
<1>6. CASE FinishBatch
  <2>1. /\ timing'.begun = timing.begun /\ timing'.running = timing.running
        /\ timing'.completed = timing.completed /\ timing'.failed = timing.failed
        /\ UNCHANGED packet
    BY <1>6 DEF FinishBatch, Types, PacketTypes, PacketRecord, TimingRecord
  <2> QED
    BY <2>1 DEF CountInv, Counting
<1> QED
  BY <1>1, <1>2, <1>3, <1>4, <1>5, <1>6, StepKinds

\* Once the batch is reported no packet moves.
LEMMA ReportInvStep ==
  ASSUME Types, FrameInv, StageInv, ReportInv, [PipelineNext]_pipelineVars
  PROVE  ReportInv'
<1>1. CASE Look
  BY <1>1 DEF Look, ReportInv, Finished, Settled
<1>2. ASSUME NEW members \in SUBSET Takers, Move(members) PROVE ReportInv'
  <2>1. PICK t \in members : t \in Takers
    BY <1>2 DEF Move
  <2>2. ~Finished(t) /\ timing'.reported = timing.reported
    BY <1>2, <2>1 DEF Move, Finished
  <2> QED
    BY <2>1, <2>2 DEF ReportInv
<1>3. ASSUME NEW t \in Takers, Begin(t) \/ FinishErase(t) \/ FinishCount(t) PROVE ReportInv'
  <2>1. ~Finished(t)
    BY <1>3 DEF Begin, FinishErase, FinishCount, Finished, At
  <2>2. timing'.reported = timing.reported
    BY <1>3, TimingWrites DEF Types, PacketTypes, PacketRecord, TimingRecord
  <2> QED
    BY <2>1, <2>2 DEF ReportInv
<1>4. CASE FinishBatch
  BY <1>4 DEF FinishBatch, ReportInv, Finished
<1> QED
  BY <1>1, <1>2, <1>3, <1>4, StepKinds

\* Nothing has begun at the start.
LEMMA IInvInit == PipelineInit => IInv
<1> SUFFICES ASSUME PipelineInit PROVE IInv
  OBVIOUS
<1>1. PoolInv
  BY PoolInvInit DEF PipelineInit
<1>2. packet = [t \in Takers |-> [stage |-> "new", failed |-> FALSE, calls |-> 0]]
  BY DEF PipelineInit
<1>3. PICK mode \in {"run", "parallel", "batch"}, camera \in {"AfterImagePreparation", "AfterPostprocess"} :
         timing = [mode |-> mode, camera |-> camera, begun |-> {}, running |-> {},
                   completed |-> 0, failed |-> 0, reported |-> FALSE]
  BY DEF PipelineInit
<1>4. PacketTypes
  BY <1>2, <1>3 DEF PacketTypes, Stages, PacketRecord, TimingRecord
<1>5. FrameInv /\ StageInv /\ ReportInv
  BY <1>2, <1>3 DEF FrameInv, FrameGone, StageInv, ReportInv
<1>6. CountInv
  <2>1. Counting = {} /\ timing.running \cup Counting = {}
    BY <1>2, <1>3 DEF Counting
  <2> QED
    BY <1>3, <2>1, FS_EmptySet DEF CountInv
<1> QED
  BY <1>1, <1>4, <1>5, <1>6 DEF IInv

\* No step disturbs it.
LEMMA IInvStep == IInv /\ [PipelineNext]_pipelineVars => IInv'
<1> SUFFICES ASSUME IInv, [PipelineNext]_pipelineVars PROVE IInv'
  OBVIOUS
<1>1. Types /\ FrameInv /\ StageInv
  BY DEF IInv, PoolInv, Types
<1>2. PoolInv'
  BY <1>1, StepKinds, PoolInvStep DEF IInv
<1>3. PacketTypes' /\ FrameInv' /\ StageInv'
  BY <1>1, TypesStep, FrameInvStep, StageInvStep
<1>4. CountInv' /\ ReportInv'
  BY <1>1, CountInvStep, ReportInvStep DEF IInv
<1> QED
  BY <1>2, <1>3, <1>4 DEF IInv
\* Buffers in the pool and leased buffers add up.
LEMMA PoolInvConserves ==
  ASSUME PoolInv
  PROVE  Conserved
<1> DEFINE free == ToSet(pool.available)
           leased == {t \in Takers : taker[t].buffer # {}}
           out == (1 .. Buffers) \ free
           held == [t \in leased |-> CHOOSE b : b \in taker[t].buffer]
<1>1. OwnInv /\ WakeInv /\ PoolTypes
  BY DEF PoolInv
<1>2. \A t \in leased : \E b \in 1 .. Buffers : taker[t].buffer = {b}
  BY <1>1 DEF PoolTypes, Lease
<1>3. \A t \in leased : taker[t].buffer = {held[t]} /\ held[t] \in 1 .. Buffers
  BY <1>2
<1>4. free \subseteq 1 .. Buffers
  BY <1>1, SeqRange DEF PoolTypes
<1>5. IsFiniteSet(1 .. Buffers) /\ Cardinality(1 .. Buffers) = Buffers
  BY FS_Interval, BuffersAssumption
<1>6. IsFiniteSet(free) /\ IsFiniteSet(out) /\ Cardinality(free) \in Nat /\ Cardinality(out) \in Nat
  <2>1. out \subseteq 1 .. Buffers
    OBVIOUS
  <2> QED
    BY <1>4, <1>5, <2>1, FS_Subset, FS_CardinalityType
<1>7. Cardinality(free) + Cardinality(out) = Buffers
  <2>1. free \cup out = 1 .. Buffers /\ free \cap out = {}
    BY <1>4
  <2> HIDE DEF free, out
  <2>2. Cardinality(free \cup out) = Cardinality(free) + Cardinality(out) - Cardinality(free \cap out)
    BY <1>6, FS_Union
  <2>3. Cardinality(free \cap out) = 0 /\ Cardinality(free \cup out) = Buffers
    BY <1>5, <2>1, FS_EmptySet
  <2> QED
    BY <1>6, <2>2, <2>3
<1>8. \A t \in leased : held[t] \in out
  BY <1>1, <1>3 DEF OwnInv
<1>9. \A t, u \in leased : held[t] = held[u] => t = u
  BY <1>1, <1>3 DEF OwnInv
<1>10. \A b \in out : \E t \in leased : held[t] = b
  <2> TAKE b \in out
  <2>1. PICK t \in Takers : b \in taker[t].buffer
    BY <1>1 DEF OwnInv
  <2>2. t \in leased
    BY <2>1
  <2> HIDE DEF leased, held
  <2> QED
    BY <1>3, <2>1, <2>2
<1>11. held \in [leased -> out]
  BY <1>8
<1>12. ExistsBijection(leased, out)
  <2> HIDE DEF leased, out
  <2>1. DOMAIN held = leased
    OBVIOUS
  <2> HIDE DEF held
  <2>2. held \in Injection(leased, out)
    BY <1>9, <1>11, <2>1 DEF Injection, IsInjective
  <2>3. held \in Surjection(leased, out)
    BY <1>10, <1>11 DEF Surjection
  <2> QED
    BY <2>2, <2>3 DEF ExistsBijection, Bijection
<1>13. Cardinality(leased) = Cardinality(out)
  <2>1. IsFiniteSet(leased)
    BY FS_Subset, TakersAssumption
  <2> QED
    BY <1>12, <2>1, FS_Bijection
<1>14. \A t, u \in leased : t # u => taker[t].buffer # taker[u].buffer
  <2> HIDE DEF leased, held
  <2> QED
    BY <1>3, <1>9
<1>15. \A t \in leased : taker[t].buffer \cap free = {}
  BY <1>1 DEF OwnInv
<1>16. Cardinality(free) + Cardinality(leased) = Buffers
  BY <1>7, <1>13
<1> QED
  BY <1>1, <1>14, <1>15, <1>16 DEF Conserved, OwnInv, WakeInv, Testing

\* When all is over, only the batch executor's cancelled tasks are not counted.
LEMMA IInvCounts == IInv => CountedOnce
<1> SUFFICES ASSUME IInv PROVE CountedOnce
  OBVIOUS
<1>1. StageInv /\ CountInv /\ ReportInv
  BY DEF IInv
<1>2. ASSUME NEW t \in Takers, Finished(t)
      PROVE  t \notin Counting /\ (t \in timing.running => packet[t].stage = "cancelled")
  BY <1>1, <1>2 DEF Finished, StageInv, Counting
<1>3. timing.running \subseteq Takers
  BY DEF IInv, PacketTypes, PacketRecord, TimingRecord
<1>4. timing.reported => /\ Counting = {}
                         /\ \A t \in timing.running : packet[t].stage = "cancelled"
  BY <1>1, <1>2, <1>3 DEF ReportInv, Counting
<1>5. \A t \in timing.running : packet[t].stage = "cancelled" => timing.mode = "batch"
  BY <1>1, <1>3 DEF StageInv
<1> QED
  BY <1>1, <1>4, <1>5 DEF CountedOnce, CountInv, Counting

\* What the theorems below hold of every reachable state.
THEOREM InductiveInvariant ==
  PipelineSpec => []IInv
<1>1. PipelineInit => IInv
  BY IInvInit
<1>2. IInv /\ [PipelineNext]_pipelineVars => IInv'
  BY IInvStep
<1> QED
  BY <1>1, <1>2, PTL DEF PipelineSpec

(* A frame pool is conserved and loses no wake-up, and a packet that is    *)
(* over has given its camera frame back, whichever way it ended.           *)
THEOREM PoolConservationHolds ==
  PipelineSpec => []PoolConservation
<1>1. IInv => PoolConservation
  BY PoolInvConserves DEF IInv, PoolConservation, FrameInv, FrameGone
<1>2. PipelineSpec => []IInv
  BY InductiveInvariant
<1> QED
  BY <1>1, <1>2, PTL

(* Every execution that was begun is counted exactly once, however many    *)
(* paths call finishExecution for it.                                      *)
THEOREM CountedOnceHolds ==
  PipelineSpec => []CountedOnce
<1>1. PipelineSpec => []IInv
  BY InductiveInvariant
<1> QED
  BY <1>1, IInvCounts, PTL
-----------------------------------------------------------------------------
(* The tensors of a session.                                               *)

\* The room there is in hand, queue and batch.
LeasesBounded ==
    /\ leases \in [left : Nat, hand : Seq(BOOLEAN), queue : Seq(BOOLEAN),
                   members : Nat, inferring : BOOLEAN, exhausted : Nat]
    /\ Len(leases.hand) <= 1
    /\ Len(leases.queue) <= StageQueue
    /\ leases.members <= MaxBatch

(* Every tensor is the batch's or belongs to a frame in hand or queue, so  *)
(* that these three bounds bound the tensors in use.                       *)
LeasesInv == LeasesBounded /\ NoFrameFailsUnderLoad

(* Frames hold at most one tensor each. *)
LEMMA HeldBound ==
  ASSUME NEW frames \in Seq(BOOLEAN)
  PROVE  Held(frames) \in Nat /\ Held(frames) <= Len(frames)
<1> DEFINE held == {i \in DOMAIN frames : frames[i]}
<1>1. DOMAIN frames = 1 .. Len(frames) /\ Len(frames) \in Nat
  OBVIOUS
<1>2. IsFiniteSet(1 .. Len(frames)) /\ Cardinality(1 .. Len(frames)) = Len(frames)
  BY <1>1, FS_Interval
<1>3. held \subseteq 1 .. Len(frames)
  BY <1>1
<1>4. IsFiniteSet(held) /\ Cardinality(held) <= Len(frames)
  BY <1>2, <1>3, FS_Subset
<1>5. Cardinality(held) \in Nat
  BY <1>4, FS_CardinalityType
<1> QED
  BY <1>4, <1>5 DEF Held

(* A preprocess thread with an empty hand finds one of the two spare       *)
(* tensors: the other is the batch's.                                      *)
LEMMA TensorLeft ==
  ASSUME StageQueue \in Nat, MaxBatch \in Nat, MaxBatch <= 1, LeasesBounded, leases.hand = << >>
  PROVE  InUse < PoolSize
<1>1. Held(leases.queue) \in Nat /\ Held(leases.queue) <= StageQueue
  <2>1. leases.queue \in Seq(BOOLEAN) /\ Len(leases.queue) <= StageQueue
    BY DEF LeasesBounded
  <2>2. Held(leases.queue) \in Nat /\ Held(leases.queue) <= Len(leases.queue)
    BY <2>1, HeldBound
  <2> QED
    BY <2>1, <2>2
<1>2. Held(leases.hand) = 0
  <2>1. leases.hand \in Seq(BOOLEAN) /\ Len(leases.hand) = 0
    BY DEF LeasesBounded
  <2>2. Held(leases.hand) \in Nat /\ Held(leases.hand) <= Len(leases.hand)
    BY <2>1, HeldBound
  <2> QED
    BY <2>1, <2>2
<1>3. leases.members \in Nat /\ leases.members <= 1
  BY DEF LeasesBounded
<1> QED
  BY <1>1, <1>2, <1>3 DEF InUse, PoolSize

\* A flag counts for at most one tensor.
LEMMA FlagsRange == ASSUME NEW flag PROVE Flags(flag) \in Nat /\ Flags(flag) <= 1
<1>1. Flags(flag) = 1 \/ Flags(flag) = 0
  BY DEF Flags
<1> QED
  BY <1>1

\* Nothing is in use at the start.
LEMMA LeasesInvInit ==
  ASSUME StageQueue \in Nat, MaxBatch \in Nat, FrameCount \in Nat
  PROVE  LeasesInit => LeasesInv
  BY DEF LeasesInit, LeasesInv, LeasesBounded, NoFrameFailsUnderLoad

\* With batches of one, no step of a stage takes a tensor that is not there.
LEMMA LeasesInvStep ==
  ASSUME StageQueue \in Nat, MaxBatch \in Nat, MaxBatch <= 1, LeasesInv, [LeasesNext]_leases
  PROVE  LeasesInv'
<1> USE DEF LeasesInv, LeasesBounded, NoFrameFailsUnderLoad
<1>1. CASE Preprocess
  <2>1. InUse < PoolSize
    BY <1>1, TensorLeft DEF Preprocess
  <2>2. InUse \in Nat /\ PoolSize \in Nat
    <3>1. Held(leases.hand) \in Nat /\ Held(leases.queue) \in Nat
      BY HeldBound
    <3> QED
      BY <3>1 DEF InUse, PoolSize
  <2>3. leases' = [leases EXCEPT !.left = @ - 1, !.hand = <<TRUE>>]
    BY <1>1, <2>1, <2>2 DEF Preprocess
  <2>4. leases.left - 1 \in Nat
    BY <1>1 DEF Preprocess
  <2>6. <<TRUE>> \in Seq(BOOLEAN) /\ Len(<<TRUE>>) = 1
    OBVIOUS
  <2>7. leases' \in [left : Nat, hand : Seq(BOOLEAN), queue : Seq(BOOLEAN),
                     members : Nat, inferring : BOOLEAN, exhausted : Nat]
    BY <2>3, <2>4, <2>6
  <2>8. /\ leases'.queue = leases.queue /\ leases'.members = leases.members
        /\ leases'.hand = <<TRUE>> /\ leases'.exhausted = leases.exhausted
    BY <2>3
  <2> QED
    BY <2>6, <2>7, <2>8
<1>2. CASE Push
  <2>1. leases.queue \o leases.hand \in Seq(BOOLEAN)
    OBVIOUS
  <2>2. Len(leases.queue \o leases.hand) <= StageQueue
    BY <1>2 DEF Push
  <2>3. << >> \in Seq(BOOLEAN) /\ Len(<< >>) = 0
    OBVIOUS
  <2>4. leases' = [leases EXCEPT !.hand = << >>, !.queue = leases.queue \o leases.hand]
    BY <1>2 DEF Push
  <2>5. /\ leases' \in [left : Nat, hand : Seq(BOOLEAN), queue : Seq(BOOLEAN),
                         members : Nat, inferring : BOOLEAN, exhausted : Nat]
        /\ leases'.queue = leases.queue \o leases.hand /\ leases'.hand = << >>
        /\ leases'.members = leases.members /\ leases'.exhausted = leases.exhausted
    BY <2>1, <2>3, <2>4
  <2> QED
    BY <2>2, <2>3, <2>5
<1>3. CASE Collect
  <2>1. Tail(leases.queue) \in Seq(BOOLEAN) /\ Len(Tail(leases.queue)) <= StageQueue
    BY <1>3 DEF Collect
  <2>2. Flags(Head(leases.queue)) \in Nat /\ Flags(Head(leases.queue)) <= 1
    BY FlagsRange
  <2>3. /\ leases.members + Flags(Head(leases.queue)) \in Nat
        /\ leases.members + Flags(Head(leases.queue)) <= MaxBatch
    BY <1>3, <2>2 DEF Collect
  <2>4. leases' = [leases EXCEPT !.queue = Tail(leases.queue), !.members = leases.members + Flags(Head(leases.queue))]
    BY <1>3 DEF Collect
  <2>5. /\ leases' \in [left : Nat, hand : Seq(BOOLEAN), queue : Seq(BOOLEAN),
                         members : Nat, inferring : BOOLEAN, exhausted : Nat]
        /\ leases'.queue = Tail(leases.queue) /\ leases'.hand = leases.hand
        /\ leases'.members = leases.members + Flags(Head(leases.queue))
        /\ leases'.exhausted = leases.exhausted
    BY <2>1, <2>3, <2>4
  <2> QED
    BY <2>1, <2>3, <2>5
<1>4. CASE Flush
  BY <1>4 DEF Flush
<1>5. CASE BatchInferred
  <2>1. leases' = [leases EXCEPT !.inferring = FALSE, !.members = 0]
    BY <1>5 DEF BatchInferred
  <2>2. /\ leases' \in [left : Nat, hand : Seq(BOOLEAN), queue : Seq(BOOLEAN),
                         members : Nat, inferring : BOOLEAN, exhausted : Nat]
        /\ leases'.queue = leases.queue /\ leases'.hand = leases.hand
        /\ leases'.members = 0 /\ leases'.exhausted = leases.exhausted
    BY <2>1
  <2> QED
    BY <2>2
<1>6. CASE UNCHANGED leases
  BY <1>6
<1> QED
  BY <1>1, <1>2, <1>3, <1>4, <1>5, <1>6 DEF LeasesNext

(* With batches of one, as under the serial and parallel executors, no     *)
(* accepted frame fails for want of a tensor: the stage queue's capacity   *)
(* and two more tensors are enough.                                        *)
THEOREM BatchesOfOneFindTensors ==
  ASSUME StageQueue \in Nat, MaxBatch \in Nat, MaxBatch <= 1, FrameCount \in Nat
  PROVE  LeasesSpec => []NoFrameFailsUnderLoad
<1>1. LeasesInit => LeasesInv
  BY LeasesInvInit
<1>2. LeasesInv /\ [LeasesNext]_leases => LeasesInv'
  BY LeasesInvStep
<1>3. LeasesInv => NoFrameFailsUnderLoad
  BY DEF LeasesInv
<1> QED
  BY <1>1, <1>2, <1>3, PTL DEF LeasesSpec

-----------------------------------------------------------------------------
(* Products, quotients and sizes that fit *)

\* A product of naturals is one.
LEMMA Product == ASSUME NEW m \in Nat, NEW n \in Nat PROVE m * n \in Nat
  OBVIOUS

\* A product of naturals grows with its factors.
LEMMA Products ==
  ASSUME NEW m \in Nat, NEW n \in Nat, NEW d \in Nat, m <= n
  PROVE  m * d \in Nat /\ n * d \in Nat /\ m * d <= n * d /\ d * m <= d * n
<1>1. (n - m) * d \in Nat
  OBVIOUS
<1> QED
  BY <1>1

\* What fits by the quotient fits by the product.
LEMMA Quotients ==
  ASSUME NEW n \in Nat, NEW m \in Nat, NEW d \in Nat \ {0}
  PROVE  n <= m \div d <=> n * d <= m
<1> DEFINE q == m \div d
           r == m % d
<1>1. q \in Nat /\ r \in 0 .. d - 1 /\ m = d * q + r
  OBVIOUS
<1> HIDE DEF q, r
<1>2. ASSUME n <= q PROVE n * d <= m
  BY <1>1, <1>2, Products
<1>3. ASSUME q < n PROVE m < n * d
  <2>1. (q + 1) * d <= n * d
    BY <1>1, <1>3, Products
  <2>2. (q + 1) * d = d * q + d
    BY <1>1
  <2> QED
    BY <1>1, <2>1, <2>2
<1> QED
  BY <1>1, <1>2, <1>3 DEF q

\* A size that fits does not wrap.
LEMMA Fits == ASSUME NEW n \in Sizes PROVE Wrap(n) = n
  BY SizeMaxAssumption DEF Sizes, Wrap

\* A pixel has from one to four bytes.
LEMMA PixelBytes == \A format \in Formats : PixelFormatSize[format] \in 1 .. 4
  BY DEF PixelFormatSize, Formats

-----------------------------------------------------------------------------
(* Frames, their crops and what is read of them *)

\* The frame that a header describes, computed without a limit.
FrameOf(capacity, width, height, format, stride, offset) ==
    [offset |-> offset, bytes |-> (height - 1) * stride + width * PixelFormatSize[format],
     width |-> width, height |-> height, stride |-> stride, format |-> format, capacity |-> capacity]

\* The stride that create() takes when none is given.
StrideOf(width, format, given) == IF given = 0 THEN width * PixelFormatSize[format] ELSE given

\* What the header asks for is in the buffer.
Described(capacity, width, height, format, stride, offset) ==
    /\ width > 0 /\ height > 0 /\ width * PixelFormatSize[format] <= stride
    /\ offset + (height - 1) * stride + width * PixelFormatSize[format] <= capacity

\* Frame::create() accepts what fits in the buffer, and nothing wraps.
LEMMA FrameExact ==
  ASSUME NEW capacity \in Sizes, NEW width \in Nat, NEW height \in Nat, NEW format \in Formats,
         NEW given \in Nat, NEW offset \in Nat
  PROVE  LET stride == StrideOf(width, format, given)
         IN  CreateFrame(capacity, width, height, format, given, offset) =
                 IF Described(capacity, width, height, format, stride, offset)
                 THEN {FrameOf(capacity, width, height, format, stride, offset)} ELSE {}
<1> DEFINE p == PixelFormatSize[format]
           stride == StrideOf(width, format, given)
           row == width * p
           rows == (height - 1) * stride
<1>1. p \in 1 .. 4 /\ SizeMax \in Nat /\ capacity \in Nat /\ capacity <= SizeMax
  BY PixelBytes, SizeMaxAssumption DEF Sizes
<1> HIDE DEF p
<1>2. row \in Nat /\ stride \in Nat
  BY <1>1, Products DEF p, StrideOf
<1> DEFINE made == CreateFrame(capacity, width, height, format, given, offset)
           fits == Described(capacity, width, height, format, stride, offset)
           frame == FrameOf(capacity, width, height, format, stride, offset)
<1>3. fits <=> width > 0 /\ height > 0 /\ row <= stride /\ offset + rows + row <= capacity
  BY DEF Described, p
<1>4. frame = [offset |-> offset, bytes |-> rows + row, width |-> width, height |-> height,
               stride |-> stride, format |-> format, capacity |-> capacity]
  BY DEF FrameOf, p
<1>5. width = 0 \/ height = 0 \/ width > SizeMax \div p => made = {}
  BY DEF CreateFrame, p
<1>6. ASSUME Wrap(row) = row, width > 0, height > 0, ~(width > SizeMax \div p)
      PROVE  made = IF stride < row THEN {}
                    ELSE Only(/\ height - 1 <= (SizeMax - row) \div stride
                              /\ offset <= capacity /\ Wrap(rows + row) <= capacity - offset,
                              [offset |-> offset, bytes |-> Wrap(rows + row), width |-> width, height |-> height,
                               stride |-> stride, format |-> format, capacity |-> capacity])
  <2> DEFINE r == Wrap(row)
             t == IF given = 0 THEN r ELSE given
             b == Wrap((height - 1) * t + r)
  <2>1. made = IF width = 0 \/ height = 0 \/ width > SizeMax \div p \/ t < r THEN {}
               ELSE Only(/\ height - 1 <= (SizeMax - r) \div t
                         /\ offset <= capacity /\ b <= capacity - offset,
                         [offset |-> offset, bytes |-> b, width |-> width, height |-> height,
                          stride |-> t, format |-> format, capacity |-> capacity])
    BY DEF CreateFrame, p
  <2>2. r = row /\ t = stride
    BY <1>6 DEF p, StrideOf
  <2>3. b = Wrap(rows + row)
    BY <2>2
  <2> HIDE DEF made, p, row, rows, r, t, b, stride
  <2> QED
    BY <1>6, <2>1, <2>2, <2>3 DEF Only, rows
<1> SUFFICES made = IF fits THEN {frame} ELSE {}
  OBVIOUS
<1> HIDE DEF made, fits, frame, stride
<1>7. CASE width = 0 \/ height = 0
  BY <1>3, <1>5, <1>7
<1>8. CASE width > 0 /\ height > 0
  <2>1. rows \in Nat
    BY <1>2, <1>8, Products
  <2>2. width <= SizeMax \div p <=> row <= SizeMax
    BY <1>1, <1>2, Quotients
  <2>3. row >= 1
    BY <1>1, <1>8, Products
  <2> DEFINE total == rows + row
  <2>4. SizeMax \div p \in Nat
    BY <1>1
  <2> HIDE DEF row, rows
  <2>5. CASE row > SizeMax
    BY <1>1, <1>2, <1>3, <1>5, <2>1, <2>2, <2>4, <2>5
  <2>6. CASE row <= SizeMax
    <3>1. Wrap(row) = row
      BY <1>1, <1>2, <2>6, Fits DEF Sizes
    <3>2. ~(width > SizeMax \div p)
      BY <2>2, <2>4, <2>6
    <3>3. CASE stride < row
      BY <1>2, <1>3, <1>6, <1>8, <3>1, <3>2, <3>3
    <3>4. CASE row <= stride
      <4>1. height - 1 <= (SizeMax - row) \div stride <=> rows <= SizeMax - row
        BY <1>1, <1>2, <1>8, <2>3, <2>6, <3>4, Quotients DEF rows
      <4>2. CASE total <= SizeMax
        <5>1. Wrap(total) = total
          BY <1>1, <1>2, <2>1, <4>2, Fits DEF Sizes
        <5>2. height - 1 <= (SizeMax - row) \div stride
          BY <1>1, <1>2, <2>1, <4>1, <4>2
        <5>3. made = Only(offset <= capacity /\ Wrap(total) <= capacity - offset,
                          [offset |-> offset, bytes |-> Wrap(total), width |-> width, height |-> height,
                           stride |-> stride, format |-> format, capacity |-> capacity])
          <6>1. ~(stride < row)
            BY <1>2, <3>4
          <6> QED
            BY <1>6, <1>8, <3>1, <3>2, <5>2, <6>1
        <5>4. made = Only(offset <= capacity /\ total <= capacity - offset, frame)
          BY <1>4, <5>1, <5>3
        <5> QED
          BY <1>1, <1>2, <1>3, <1>8, <2>1, <3>4, <5>4 DEF Only
      <4>3. CASE total > SizeMax
        <5>1. ~(height - 1 <= (SizeMax - row) \div stride)
          BY <1>1, <1>2, <2>1, <4>1, <4>3
        <5> QED
          BY <1>1, <1>2, <1>3, <1>6, <1>8, <2>1, <3>1, <3>2, <3>4, <4>3, <5>1 DEF Only
      <4> QED
        BY <1>1, <1>2, <2>1, <4>2, <4>3
    <3> QED
      BY <1>2, <3>3, <3>4
  <2> QED
    BY <1>1, <1>2, <2>5, <2>6
<1> QED
  BY <1>7, <1>8

\* The rounded half is the nearest whole number, and no more than the number.
LEMMA Halves ==
  ASSUME NEW n \in Nat
  PROVE  RoundHalfToEven(n) \in 0 .. n /\ 2 * RoundHalfToEven(n) - n \in -1 .. 1
<1>1. PICK q \in Nat, r \in {0, 1} : n = 2 * q + r /\ q = n \div 2 /\ r = n % 2
  OBVIOUS
<1>2. RoundHalfToEven(n) = IF r = 1 /\ q % 2 = 1 THEN q + 1 ELSE q
  BY <1>1 DEF RoundHalfToEven
<1>3. q % 2 = 1 => q >= 1
  BY <1>1
<1> QED
  BY <1>1, <1>2, <1>3

\* Where a crop begins, without a limit.
CropFrom(f, size) == f.offset + Top(f, size) * f.stride + Left(f, size) * PixelFormatSize[f.format]

\* The middle of a frame is inside it, to the last byte.
LEMMA CropInside ==
  ASSUME NEW capacity \in Sizes, NEW width \in Nat, NEW height \in Nat, NEW format \in Formats,
         NEW stride \in Nat, NEW offset \in Nat,
         Described(capacity, width, height, format, stride, offset),
         NEW size, size.width \in Nat \ {0}, size.height \in Nat \ {0}, size.width <= width, size.height <= height, format \in CvFormats
  PROVE  LET f == FrameOf(capacity, width, height, format, stride, offset)
             from == CropFrom(f, size)
             c == FrameOf(capacity, size.width, size.height, format, stride, from)
         IN  /\ CenterCrop(size, f) = {c}
             /\ Described(capacity, size.width, size.height, format, stride, from)
             /\ from \in Nat /\ Left(f, size) \in Nat /\ Top(f, size) \in Nat
             /\ Left(f, size) + size.width <= width
             /\ 2 * Left(f, size) + size.width - width \in -1 .. 1
             /\ c.offset + c.bytes <= f.offset + f.bytes
<1> DEFINE p == PixelFormatSize[format]
           w == size.width
           h == size.height
           f == FrameOf(capacity, width, height, format, stride, offset)
           from == CropFrom(f, size)
           left == Left(f, size)
           top == Top(f, size)
<1>1. p \in 1 .. 4 /\ SizeMax \in Nat /\ capacity \in Nat /\ capacity <= SizeMax
  BY PixelBytes, SizeMaxAssumption DEF Sizes
<1>2. w \in Nat \ {0} /\ h \in Nat \ {0} /\ w <= width /\ h <= height
  OBVIOUS
<1>3. f.width = width /\ f.height = height /\ f.stride = stride /\ f.offset = offset
      /\ f.format = format /\ f.capacity = capacity /\ f.bytes = (height - 1) * stride + width * p
  BY DEF FrameOf
<1>4. left = RoundHalfToEven(width - w) /\ top = RoundHalfToEven(height - h)
  BY <1>3 DEF Left, Top
<1>5. width - w \in Nat /\ height - h \in Nat
  BY <1>2
<1>6. left \in 0 .. width - w /\ top \in 0 .. height - h /\ 2 * left - (width - w) \in -1 .. 1
  BY <1>4, <1>5, Halves
<1>7. /\ width * p <= stride /\ offset + (height - 1) * stride + width * p <= capacity
      /\ from = offset + top * stride + left * p
  BY <1>3 DEF Described, CropFrom
<1>8. CenterCrop(size, f) = CreateFrame(capacity, w, h, format, stride, Wrap(from))
  BY <1>2, <1>3 DEF CenterCrop, CropFrom
<1> HIDE DEF p, w, h, f, from, left, top
<1>9. left * p \in Nat /\ top * stride \in Nat /\ w * p \in Nat /\ (h - 1) * stride \in Nat
      /\ width * p \in Nat /\ (height - 1) * stride \in Nat
  BY <1>1, <1>2, <1>6, Products
<1>10. left * p + w * p <= width * p
  <2>1. (left + w) * p <= width * p
    BY <1>1, <1>2, <1>6, Products
  <2> QED
    BY <1>1, <1>2, <1>6, <2>1
<1>11. top * stride + (h - 1) * stride <= (height - 1) * stride
  <2>1. (top + (h - 1)) * stride <= (height - 1) * stride
    BY <1>1, <1>2, <1>6, Products
  <2> QED
    BY <1>1, <1>2, <1>6, <2>1
<1>12. from \in Nat /\ from + (h - 1) * stride + w * p <= offset + (height - 1) * stride + width * p
  BY <1>7, <1>9, <1>10, <1>11
<1>13. w * p <= stride
  BY <1>7, <1>9, <1>10
<1>14. Wrap(from) = from
  BY <1>1, <1>7, <1>9, <1>12, Fits DEF Sizes
<1>15. Described(capacity, w, h, format, stride, from)
  BY <1>1, <1>2, <1>7, <1>9, <1>12, <1>13 DEF Described, p
<1>16. stride # 0
  BY <1>1, <1>2, <1>9, <1>13, Products
<1>17. CenterCrop(size, f) = {FrameOf(capacity, w, h, format, stride, from)}
  <2>1. StrideOf(w, format, stride) = stride
    BY <1>16 DEF StrideOf
  <2> QED
    BY <1>2, <1>8, <1>12, <1>14, <1>15, <2>1, FrameExact
<1>18. LET c == FrameOf(capacity, w, h, format, stride, from)
       IN  c.offset = from /\ c.bytes = (h - 1) * stride + w * p
  BY DEF FrameOf, p
<1>19. left + w <= width /\ 2 * left + w - width \in -1 .. 1 /\ left \in Nat /\ top \in Nat
  BY <1>2, <1>6
<1>20. LET c == FrameOf(capacity, w, h, format, stride, from)
       IN  c.offset + c.bytes <= f.offset + f.bytes
  BY <1>3, <1>9, <1>12, <1>18
<1> QED
  BY <1>12, <1>15, <1>17, <1>19, <1>20 DEF w, h, f, from, left, top

\* What ToTensor reads of a crop is in its view, where its frame has it.
ReadsInside(c, f, left, top) ==
    \A k \in 0 .. 2, x \in 0 .. c.width - 1, y \in 0 .. c.height - 1 :
        /\ ReadFrom(c, k, x, y) \in c.offset .. c.offset + c.bytes - 1
        /\ ReadFrom(c, k, x, y) = ReadFrom(f, k, x + left, y + top)

\* What ToTensor reads of a crop is inside it, where the crop was taken.
LEMMA ReadInside ==
  ASSUME NEW c, NEW f, NEW left \in Nat, NEW top \in Nat,
         c.width \in Nat \ {0}, c.height \in Nat \ {0}, c.format \in CvFormats, c.stride \in Nat,
         f.offset \in Nat, f.stride = c.stride, f.format = c.format,
         c.offset = f.offset + top * c.stride + left * PixelFormatSize[c.format],
         c.bytes = (c.height - 1) * c.stride + c.width * PixelFormatSize[c.format]
  PROVE  ReadsInside(c, f, left, top)
<1> DEFINE width == c.width
           height == c.height
           format == c.format
           stride == c.stride
           offset == c.offset
           p == PixelFormatSize[format]
<1> SUFFICES ASSUME NEW k \in 0 .. 2, NEW x \in 0 .. width - 1, NEW y \in 0 .. height - 1
             PROVE  /\ ReadFrom(c, k, x, y) \in offset .. offset + c.bytes - 1
                    /\ ReadFrom(c, k, x, y) = ReadFrom(f, k, x + left, y + top)
  BY DEF ReadsInside
<1> DEFINE at == IF format = "Gray8" THEN x ELSE x * p + 2 - k
<1>1. p \in 1 .. 4 /\ (format = "Gray8" => p = 1) /\ (format # "Gray8" => p >= 3)
  BY DEF PixelFormatSize, CvFormats
<1>2. /\ width \in Nat \ {0} /\ height \in Nat \ {0} /\ stride \in Nat /\ offset \in Nat
      /\ offset = f.offset + top * stride + left * p /\ c.bytes = (height - 1) * stride + width * p
  <2>1. top * stride \in Nat /\ left * p \in Nat
    BY <1>1, Products
  <2> QED
    BY <2>1
<1>3. ReadFrom(c, k, x, y) = IF format = "Gray8" THEN offset + y * stride + x ELSE offset + y * stride + x * p + 2 - k
  BY <1>2 DEF ReadFrom
<1>4. ReadFrom(f, k, x + left, y + top)
        = IF format = "Gray8" THEN f.offset + (y + top) * stride + (x + left)
          ELSE f.offset + (y + top) * stride + (x + left) * p + 2 - k
  BY DEF ReadFrom
<1> HIDE DEF width, height, format, stride, offset, p
<1>5. y * stride \in Nat /\ y * stride <= (height - 1) * stride /\ (height - 1) * stride \in Nat
  BY <1>2, Products
<1>6. x * p \in Nat /\ (x + 1) * p <= width * p /\ width * p \in Nat
  BY <1>1, <1>2, Products
<1>7. at \in 0 .. width * p - 1
  BY <1>1, <1>6
<1>8. offset + y * stride + at \in offset .. offset + ((height - 1) * stride + width * p) - 1
  <2> DEFINE rows == y * stride
             all == (height - 1) * stride
             row == width * p
  <2>1. rows \in Nat /\ rows <= all /\ all \in Nat /\ row \in Nat /\ at \in 0 .. row - 1 /\ offset \in Nat
    BY <1>2, <1>5, <1>6, <1>7
  <2>2. offset + rows + at \in offset .. offset + (all + row) - 1
    <3> HIDE DEF at, rows, all, row
    <3> QED
      BY <2>1
  <2> QED
    BY <2>2
<1>9. ReadFrom(c, k, x, y) = offset + y * stride + at
  BY <1>1, <1>2, <1>3, <1>5, <1>6
<1>10. ReadFrom(c, k, x, y) = ReadFrom(f, k, x + left, y + top)
  <2>1. offset = f.offset + top * stride + left * p
    BY <1>2
  <2>2. (y + top) * stride = y * stride + top * stride /\ top * stride \in Nat
    BY <1>2, Products
  <2>3. (x + left) * p = x * p + left * p /\ left * p \in Nat
    BY <1>1, Products
  <2>4. CASE format = "Gray8"
    <3>1. left * p = left
      BY <1>1, <2>4
    <3> QED
      BY <1>3, <1>4, <1>5, <2>1, <2>2, <2>4, <3>1
  <2>5. CASE format # "Gray8"
    <3> HIDE DEF at
    <3> QED
      BY <1>3, <1>4, <1>5, <1>6, <2>1, <2>2, <2>3, <2>5
  <2> QED
    BY <2>4, <2>5
<1> QED
  BY <1>2, <1>8, <1>9, <1>10 DEF offset

\* A buffer of a business pool holds the frame that it is for.
LEMMA BusinessSound ==
  ASSUME NEW o \in FrameInputs, NEW capacity \in BusinessPool(1, o.width, o.height, o.format, o.stride)
  PROVE  CreateFrame(capacity, o.width, o.height, o.format, o.stride, 0) # {}
<1> DEFINE p == PixelFormatSize[o.format]
           row == o.width * p
           r == Wrap(row)
           stride == IF o.stride = 0 THEN r ELSE o.stride
<1>1. p \in 1 .. 4 /\ SizeMax \in Nat /\ o.width \in Nat /\ o.height \in Nat /\ o.stride \in Nat
  BY PixelBytes, SizeMaxAssumption DEF Sizes, FrameInputs
<1>2. /\ o.width # 0 /\ o.height # 0 /\ ~(o.width > SizeMax \div p) /\ ~(stride < r)
      /\ o.height <= SizeMax \div stride /\ capacity = Wrap(o.height * stride)
  BY DEF BusinessPool, Only
<1> HIDE DEF p
<1>3. row \in Nat /\ row >= 1
  BY <1>1, <1>2, Products
<1>4. row <= SizeMax
  <2>1. SizeMax \div p \in Nat
    BY <1>1
  <2>2. o.width <= SizeMax \div p
    BY <1>1, <1>2, <2>1
  <2> QED
    BY <1>1, <2>2, Quotients
<1>5. r = row
  BY <1>1, <1>3, <1>4, Fits DEF Sizes
<1> HIDE DEF row, r
<1>6. stride \in Nat \ {0} /\ row <= stride
  BY <1>1, <1>2, <1>3, <1>5
<1> HIDE DEF stride
<1>7. o.height * stride <= SizeMax /\ o.height * stride \in Nat
  BY <1>1, <1>2, <1>6, Quotients, Products
<1>8. capacity = o.height * stride
  BY <1>1, <1>2, <1>7, Fits DEF Sizes
<1>9. o.height * stride = (o.height - 1) * stride + stride
  BY <1>1, <1>6
<1>10. Described(capacity, o.width, o.height, o.format, stride, 0)
  <2>1. (o.height - 1) * stride \in Nat
    BY <1>1, <1>2, <1>6, Products
  <2>2. (o.height - 1) * stride + row <= capacity
    BY <1>3, <1>6, <1>8, <1>9, <2>1
  <2> QED
    BY <1>1, <1>2, <1>3, <1>6, <2>1, <2>2 DEF Described, row, p
<1>11. stride = StrideOf(o.width, o.format, o.stride)
  BY <1>5 DEF stride, row, p, StrideOf
<1>12. capacity \in Sizes /\ o.format \in Formats
  BY <1>7, <1>8, SizeMaxAssumption DEF Sizes, FrameInputs
<1>13. 0 \in Nat
  OBVIOUS
<1> QED
  BY <1>1, <1>10, <1>11, <1>12, <1>13, FrameExact

\* A frame ends in its buffer and its crops are sound.
THEOREM FrameIsSound == ASSUME NEW o \in FrameInputs PROVE FrameSound(o)
<1> DEFINE p == PixelFormatSize[o.format]
           stride == StrideOf(o.width, o.format, o.stride)
<1>1. /\ o.width \in Nat /\ o.height \in Nat /\ o.stride \in Nat /\ o.offset \in Nat
      /\ o.capacity \in Sizes /\ o.format \in Formats /\ p \in 1 .. 4
      /\ o.capacity \in Nat /\ o.capacity <= SizeMax /\ SizeMax \in Nat
  BY PixelBytes, SizeMaxAssumption DEF FrameInputs, Sizes
<1>2. ASSUME NEW f \in CreateFrame(o.capacity, o.width, o.height, o.format, o.stride, o.offset)
      PROVE  /\ Described(o.capacity, o.width, o.height, o.format, stride, o.offset)
             /\ f = FrameOf(o.capacity, o.width, o.height, o.format, stride, o.offset)
  BY <1>1, <1>2, FrameExact
<1>3. stride \in Nat
  BY <1>1, Products DEF StrideOf
<1> HIDE DEF p, stride
<1>4. ASSUME NEW f \in CreateFrame(o.capacity, o.width, o.height, o.format, o.stride, o.offset)
      PROVE  Within(f)
  <2>1. f.offset = o.offset /\ f.bytes = (o.height - 1) * stride + o.width * p /\ f.capacity = o.capacity
        /\ f.height = o.height /\ f.width = o.width /\ f.stride = stride /\ PixelFormatSize[f.format] = p
    BY <1>2 DEF FrameOf, p
  <2>2. o.width > 0 /\ o.height > 0 /\ o.offset + (o.height - 1) * stride + o.width * p <= o.capacity
    BY <1>2 DEF Described, p
  <2>3. (o.height - 1) * stride \in Nat /\ o.width * p \in Nat
    BY <1>1, <1>3, <2>2, Products
  <2> QED
    BY <1>1, <2>1, <2>2, <2>3 DEF Within
<1>5. ASSUME NEW f \in CreateFrame(o.capacity, o.width, o.height, o.format, o.stride, o.offset),
             o.format \in CvFormats, NEW w \in 1 .. o.width, NEW h \in 1 .. o.height, NEW channels \in {1, 3}
      PROVE  CropSound(f, [width |-> w, height |-> h], channels)
  <2> DEFINE size == [width |-> w, height |-> h]
             left == Left(f, size)
             top == Top(f, size)
             from == CropFrom(f, size)
             c == FrameOf(o.capacity, w, h, o.format, stride, from)
  <2>1. size.width = w /\ size.height = h
        /\ w <= o.width /\ h <= o.height /\ w \in Nat \ {0} /\ h \in Nat \ {0}
    BY <1>1
  <2>2. /\ Described(o.capacity, o.width, o.height, o.format, stride, o.offset)
        /\ f = FrameOf(o.capacity, o.width, o.height, o.format, stride, o.offset)
    BY <1>2
  <2>3. f.offset = o.offset /\ f.stride = stride /\ f.format = o.format /\ f.width = o.width
    BY <2>2 DEF FrameOf
  <2> HIDE DEF size
  <2>4. /\ CenterCrop(size, f) = {c} /\ Described(o.capacity, w, h, o.format, stride, from)
        /\ from \in Nat /\ left \in Nat /\ top \in Nat /\ left + w <= o.width
        /\ 2 * left + w - o.width \in -1 .. 1 /\ c.offset + c.bytes <= f.offset + f.bytes
    <3>1. /\ o.capacity \in Sizes /\ o.width \in Nat /\ o.height \in Nat /\ o.format \in Formats
          /\ stride \in Nat /\ o.offset \in Nat /\ o.format \in CvFormats
          /\ Described(o.capacity, o.width, o.height, o.format, stride, o.offset)
          /\ size.width \in Nat \ {0} /\ size.height \in Nat \ {0}
          /\ size.width <= o.width /\ size.height <= o.height
      BY <1>1, <1>3, <1>5, <2>1, <2>2
    <3> DEFINE g == FrameOf(o.capacity, o.width, o.height, o.format, stride, o.offset)
               start == CropFrom(g, size)
               d == FrameOf(o.capacity, size.width, size.height, o.format, stride, start)
    <3>2. /\ CenterCrop(size, g) = {d}
          /\ Described(o.capacity, size.width, size.height, o.format, stride, start)
          /\ start \in Nat /\ Left(g, size) \in Nat /\ Top(g, size) \in Nat
          /\ Left(g, size) + size.width <= o.width
          /\ 2 * Left(g, size) + size.width - o.width \in -1 .. 1
          /\ d.offset + d.bytes <= g.offset + g.bytes
      BY <3>1, CropInside
    <3>3. g = f /\ start = from /\ left = Left(g, size) /\ top = Top(g, size)
      BY <2>2
    <3>4. d = c
      BY <2>1, <3>3
    <3> HIDE DEF g, start, d, c, from, left, top
    <3> QED
      BY <2>1, <3>2, <3>3, <3>4
  <2>5. Within(c)
    <3>1. c.offset = from /\ c.bytes = (h - 1) * stride + w * p /\ c.capacity = o.capacity
          /\ c.height = h /\ c.width = w /\ c.stride = stride /\ PixelFormatSize[c.format] = p
      BY DEF FrameOf, p
    <3>2. from + (h - 1) * stride + w * p <= o.capacity
      BY <2>4 DEF Described, p
    <3>3. (h - 1) * stride \in Nat /\ w * p \in Nat
      BY <1>1, <1>3, <2>1, Products
    <3> HIDE DEF c, from
    <3> QED
      BY <1>1, <2>4, <3>1, <3>2, <3>3 DEF Within
  <2>6. ASSUME NEW k \in 0 .. channels - 1, NEW x \in 0 .. w - 1, NEW y \in 0 .. h - 1
        PROVE  /\ ReadFrom(c, k, x, y) \in c.offset .. c.offset + c.bytes - 1
               /\ ReadFrom(c, k, x, y) = ReadFrom(f, k, x + left, y + top)
    <3>1. k \in 0 .. 2
      BY <1>5
    <3>2. from = f.offset + top * stride + left * PixelFormatSize[o.format] /\ f.offset \in Nat
      BY <1>1, <2>3 DEF CropFrom
    <3> HIDE DEF from, left, top
    <3> QED
      <4>1. /\ c.width = w /\ c.height = h /\ c.format = o.format /\ c.stride = stride
            /\ c.offset = from /\ c.bytes = (h - 1) * stride + w * PixelFormatSize[o.format]
        BY DEF FrameOf
      <4> HIDE DEF c
      <4>2. /\ c.width \in Nat \ {0} /\ c.height \in Nat \ {0} /\ c.format \in CvFormats /\ c.stride \in Nat
            /\ f.offset \in Nat /\ f.stride = c.stride /\ f.format = c.format /\ left \in Nat /\ top \in Nat
            /\ c.offset = f.offset + top * c.stride + left * PixelFormatSize[c.format]
            /\ c.bytes = (c.height - 1) * c.stride + c.width * PixelFormatSize[c.format]
        BY <1>3, <1>5, <2>1, <2>3, <2>4, <3>2, <4>1
      <4>3. x \in 0 .. c.width - 1 /\ y \in 0 .. c.height - 1
        BY <4>1
      <4>4. ReadsInside(c, f, left, top)
        BY <4>2, ReadInside
      <4> QED
        BY <3>1, <4>3, <4>4 DEF ReadsInside
  <2> HIDE DEF c, left, top
  <2> QED
    BY <2>1, <2>3, <2>4, <2>5, <2>6 DEF CropSound, left, top, size
<1> QED
  BY <1>4, <1>5, BusinessSound DEF FrameSound

-----------------------------------------------------------------------------
(* Folds *)

\* A set of naturals that follows its predecessors is all of them.
LEMMA Naturally ==
  ASSUME NEW T \in SUBSET Nat, \A n \in Nat : (\A m \in 0 .. n - 1 : m \in T) => n \in T
  PROVE  T = Nat
<1> DEFINE Less == {p \in Nat \X Nat : p[1] < p[2]}
<1>1. IsWellFoundedOn(Less, Nat)
  BY NatLessThanWellFounded DEF OpToRel
<1>2. SUFFICES ASSUME Nat \ T # {} PROVE FALSE
  OBVIOUS
<1>3. PICK n \in Nat \ T : \A m \in Nat \ T : ~(<<m, n>> \in Less)
  <2>1. Nat \ T \subseteq Nat
    OBVIOUS
  <2> HIDE DEF Less
  <2> QED
    BY <1>1, <1>2, <2>1, WFMin
<1>4. ASSUME NEW m \in 0 .. n - 1 PROVE m \in T
  <2>1. m \in Nat /\ n \in Nat /\ m < n
    BY <1>3
  <2>2. <<m, n>> \in Less
    BY <2>1
  <2> QED
    BY <1>3, <2>1, <2>2
<1> QED
  BY <1>3, <1>4

\* A set that has 0 and the successors of what it has has every natural.
LEMMA Upward ==
  ASSUME NEW T \in SUBSET Nat, 0 \in T, \A n \in T : n + 1 \in T PROVE T = Nat
<1>1. ASSUME NEW n \in Nat, \A m \in 0 .. n - 1 : m \in T PROVE n \in T
  <2>1. CASE n = 0
    BY <2>1
  <2>2. CASE n # 0
    <3>1. n - 1 \in 0 .. n - 1 /\ n = (n - 1) + 1
      BY <2>2
    <3> QED
      BY <1>1, <3>1
  <2> QED
    BY <2>1, <2>2
<1> QED
  BY <1>1, Naturally

\* The largest of some numbers that end in n.
LEMMA Largest ==
  ASSUME NEW n \in Nat, NEW s \in SUBSET (1 .. n), n \in s PROVE Max(s) = n
<1> DEFINE x == CHOOSE x \in s : \A y \in s : x >= y
<1>1. n \in s /\ \A y \in s : n >= y
  OBVIOUS
<1>2. x \in s /\ \A y \in s : x >= y
  BY <1>1
<1>3. x = n
  <2> HIDE DEF x
  <2> QED
    BY <1>1, <1>2
<1> QED
  BY <1>3 DEF Max

\* What a fold from the left does is a function of sets of indices, which takes
\* the largest one last: it exists when its steps stay in a set.
Folds(g, n, base, step) ==
    g = [s \in SUBSET (1 .. n) |-> IF s = {} THEN base ELSE step[Max(s)][g[s \ {Max(s)}]]]

\* A fold whose steps stay in V exists, and its values are in V.
LEMMA FoldExists ==
  ASSUME NEW n \in Nat, NEW V, NEW base \in V, NEW step \in [1 .. n -> [V -> V]]
  PROVE  \E g \in [SUBSET (1 .. n) -> V] : Folds(g, n, base, step)
<1> DEFINE Good(g, k) == \A s \in SUBSET (1 .. k) :
                            g[s] = IF s = {} THEN base ELSE step[Max(s)][g[s \ {Max(s)}]]
           Some(k) == \E g \in [SUBSET (1 .. k) -> V] : Good(g, k)
           T == {k \in Nat : k <= n => Some(k)}
<1>1. 0 \in T
  <2> DEFINE g == [s \in SUBSET (1 .. 0) |-> base]
  <2>1. g \in [SUBSET (1 .. 0) -> V] /\ \A s \in SUBSET (1 .. 0) : s = {} /\ g[s] = base
    OBVIOUS
  <2>2. Good(g, 0)
    BY <2>1
  <2> HIDE DEF Good, g
  <2> QED
    BY <2>1, <2>2
<1>2. ASSUME NEW k \in T PROVE k + 1 \in T
  <2>1. SUFFICES ASSUME k + 1 <= n PROVE Some(k + 1)
    <3> HIDE DEF Some
    <3> QED
      OBVIOUS
  <2>2. PICK g \in [SUBSET (1 .. k) -> V] : Good(g, k)
    <3>1. Some(k)
      <4> HIDE DEF Some
      <4> QED
        BY <2>1
    <3> HIDE DEF Good
    <3> QED
      BY <3>1
  <2> DEFINE m == k + 1
             h == [s \in SUBSET (1 .. m) |-> IF m \in s THEN step[m][g[s \ {m}]] ELSE g[s]]
  <2>3. \A s \in SUBSET (1 .. m) : /\ m \notin s => s \in SUBSET (1 .. k)
                                   /\ s \ {m} \in SUBSET (1 .. k)
                                   /\ m \in s => Max(s) = m
    <3> TAKE s \in SUBSET (1 .. m)
    <3>1. m \in s => Max(s) = m
      BY Largest
    <3>2. \A x \in s : x \in 1 .. m /\ (x # m => x \in 1 .. k)
      OBVIOUS
    <3> QED
      BY <3>1, <3>2
  <2>4. h \in [SUBSET (1 .. m) -> V]
    BY <2>1, <2>3
  <2>5. ASSUME NEW s \in SUBSET (1 .. m)
        PROVE  h[s] = IF s = {} THEN base ELSE step[Max(s)][h[s \ {Max(s)}]]
    <3>1. CASE m \in s
      <4>1. h[s] = step[m][g[s \ {m}]] /\ Max(s) = m
        BY <2>3, <3>1
      <4>2. s \ {m} \in SUBSET (1 .. m) /\ m \notin s \ {m}
        OBVIOUS
      <4>3. h[s \ {m}] = g[s \ {m}]
        BY <4>2
      <4> QED
        BY <3>1, <4>1, <4>3
    <3>2. CASE m \notin s
      <4>1. s \in SUBSET (1 .. k) /\ h[s] = g[s]
        BY <2>3, <3>2
      <4>2. s \ {Max(s)} \in SUBSET (1 .. m) /\ m \notin s \ {Max(s)}
        BY <3>2
      <4>3. h[s \ {Max(s)}] = g[s \ {Max(s)}]
        BY <4>2
      <4> QED
        BY <2>2, <4>1, <4>3
    <3> QED
      BY <3>1, <3>2
  <2> HIDE DEF h
  <2> QED
    BY <2>4, <2>5
<1>3. T = Nat
  <2> HIDE DEF T
  <2>1. T \in SUBSET Nat
    BY DEF T
  <2> QED
    BY <1>1, <1>2, <2>1, Upward
<1>4. PICK g \in [SUBSET (1 .. n) -> V] : Good(g, n)
  <2>1. Some(n)
    <3>1. n \in T
      BY <1>3
    <3> HIDE DEF Some
    <3> QED
      BY <3>1
  <2> HIDE DEF Good
  <2> QED
    BY <2>1
<1>5. Folds(g, n, base, step)
  BY <1>4 DEF Folds
<1> QED
  BY <1>5

\* A fold has the value of the steps taken one after the other.
LEMMA FoldValue ==
  ASSUME NEW n \in Nat, NEW g, NEW R, g[{}] = R[0],
         \A k \in 1 .. n : g[1 .. k - 1] = R[k - 1] => g[1 .. k] = R[k]
  PROVE  g[1 .. n] = R[n]
<1> DEFINE T == {k \in Nat : k <= n => g[1 .. k] = R[k]}
<1>1. 0 \in T
  <2>1. 1 .. 0 = {}
    OBVIOUS
  <2> QED
    BY <2>1
<1>2. ASSUME NEW k \in T PROVE k + 1 \in T
  <2>1. SUFFICES ASSUME k + 1 <= n PROVE g[1 .. k + 1] = R[k + 1]
    OBVIOUS
  <2>2. k + 1 \in 1 .. n /\ (k + 1) - 1 = k /\ g[1 .. k] = R[k]
    BY <2>1
  <2> QED
    BY <2>2
<1>3. T = Nat
  <2> HIDE DEF T
  <2>1. T \in SUBSET Nat
    BY DEF T
  <2> QED
    BY <1>1, <1>2, <2>1, Upward
<1> QED
  BY <1>3

\* The last of the first k indices, and the others.
LEMMA Firsts ==
  ASSUME NEW k \in Nat \ {0} PROVE Max(1 .. k) = k /\ (1 .. k) \ {k} = 1 .. k - 1 /\ 1 .. k # {}
  BY Largest

\* One step of the count of elements.
CountStep(count, d) == IF count = 0 \/ d <= 0 \/ count > SizeMax \div d THEN 0 ELSE count * d

\* Some of the first numbers have a largest one.
LEMMA LargestExists ==
  ASSUME NEW n \in Nat, NEW s \in SUBSET (1 .. n), s # {} PROVE Max(s) \in s
<1> DEFINE Has(t) == \E x \in t : \A y \in t : x >= y
           T == {k \in Nat : \A t \in SUBSET (1 .. k) : t # {} => Has(t)}
<1>1. 0 \in T
  <2>1. 1 .. 0 = {}
    OBVIOUS
  <2> QED
    BY <2>1
<1>2. ASSUME NEW k \in T PROVE k + 1 \in T
  <2>1. SUFFICES ASSUME NEW t \in SUBSET (1 .. k + 1), t # {} PROVE Has(t)
    <3> HIDE DEF Has
    <3> QED
      OBVIOUS
  <2>2. CASE k + 1 \in t
    BY <2>2
  <2>3. CASE k + 1 \notin t
    <3>1. t \in SUBSET (1 .. k)
      BY <2>3
    <3> HIDE DEF Has
    <3> QED
      BY <2>1, <3>1
  <2> QED
    BY <2>2, <2>3
<1>3. T = Nat
  <2> HIDE DEF T
  <2>1. T \in SUBSET Nat
    BY DEF T
  <2> QED
    BY <1>1, <1>2, <2>1, Upward
<1>4. Has(s)
  <2> HIDE DEF Has
  <2> QED
    BY <1>3
<1> QED
  BY <1>4 DEF Max

\* Steps taken one after the other.
Steps(R, n, base, step) == R[0] = base /\ \A k \in 1 .. n : R[k] = step[k][R[k - 1]]

\* They can be when they stay in a set.
LEMMA StepsExist ==
  ASSUME NEW n \in Nat, NEW V, NEW base \in V, NEW step \in [1 .. n -> [V -> V]]
  PROVE  \E R \in [0 .. n -> V] : Steps(R, n, base, step)
<1>1. PICK g \in [SUBSET (1 .. n) -> V] : Folds(g, n, base, step)
  BY FoldExists
<1> DEFINE R == [k \in 0 .. n |-> g[1 .. k]]
<1>2. R \in [0 .. n -> V]
  <2>1. \A k \in 0 .. n : 1 .. k \in SUBSET (1 .. n)
    OBVIOUS
  <2> QED
    BY <2>1
<1>3. R[0] = base
  <2>1. 1 .. 0 = {} /\ {} \in SUBSET (1 .. n) /\ 0 \in 0 .. n
    OBVIOUS
  <2>2. g[{}] = base
    BY <1>1, <2>1 DEF Folds
  <2> QED
    BY <2>1, <2>2
<1>4. ASSUME NEW k \in 1 .. n PROVE R[k] = step[k][R[k - 1]]
  <2>1. Max(1 .. k) = k /\ (1 .. k) \ {k} = 1 .. k - 1 /\ 1 .. k # {}
    <3>1. k \in Nat \ {0}
      OBVIOUS
    <3> QED
      BY <3>1, Firsts
  <2>2. 1 .. k \in SUBSET (1 .. n) /\ k \in 0 .. n /\ k - 1 \in 0 .. n
    OBVIOUS
  <2>3. g[1 .. k] = step[k][g[1 .. k - 1]]
    <3>1. g[1 .. k] = step[Max(1 .. k)][g[(1 .. k) \ {Max(1 .. k)}]]
      BY <1>1, <2>1, <2>2 DEF Folds
    <3> QED
      BY <2>1, <3>1
  <2> QED
    BY <2>2, <2>3
<1> HIDE DEF R
<1> QED
  BY <1>2, <1>3, <1>4 DEF Steps

\* The count of elements is made of such steps.
LEMMA CountSteps ==
  ASSUME NEW shape \in Seq(Int)
  PROVE  \E R \in [0 .. Len(shape) -> Nat] :
            /\ R[0] = 1 /\ \A k \in 1 .. Len(shape) : R[k] = CountStep(R[k - 1], shape[k])
            /\ ElementCount(shape) = R[Len(shape)]
<1> DEFINE n == Len(shape)
           step == [k \in 1 .. n |-> [v \in Nat |-> CountStep(v, shape[k])]]
           Equation(g) == g = [s \in SUBSET DOMAIN shape |->
                                 IF s = {} THEN 1
                                 ELSE LET x == Max(s)
                                      IN  IF g[s \ {x}] = 0 \/ shape[x] <= 0 \/ g[s \ {x}] > SizeMax \div shape[x]
                                          THEN 0 ELSE g[s \ {x}] * shape[x]]
           g == CHOOSE g : Equation(g)
<1>1. n \in Nat /\ DOMAIN shape = 1 .. n /\ \A k \in 1 .. n : shape[k] \in Int
  OBVIOUS
<1>2. ElementCount(shape) = g[1 .. n]
  BY <1>1 DEF ElementCount, FoldLeft, MapThenFoldSet
<1>3. step \in [1 .. n -> [Nat -> Nat]]
  <2>1. ASSUME NEW k \in 1 .. n, NEW v \in Nat PROVE CountStep(v, shape[k]) \in Nat
    <3>1. shape[k] > 0 => v * shape[k] \in Nat
      BY <1>1, Products
    <3> QED
      BY <1>1, <3>1 DEF CountStep
  <2> QED
    BY <2>1
<1>4. \E h : Equation(h)
  <2>1. PICK h \in [SUBSET (1 .. n) -> Nat] : Folds(h, n, 1, step)
    <3>1. 1 \in Nat
      OBVIOUS
    <3> HIDE DEF step, n
    <3> QED
      BY <1>1, <1>3, <3>1, FoldExists
  <2>2. ASSUME NEW s \in SUBSET (1 .. n), s # {}
        PROVE  h[s] = CountStep(h[s \ {Max(s)}], shape[Max(s)])
    <3>1. Max(s) \in 1 .. n
      BY <1>1, <2>2, LargestExists
    <3>2. s \ {Max(s)} \in SUBSET (1 .. n)
      OBVIOUS
    <3>3. h[s] = step[Max(s)][h[s \ {Max(s)}]]
      BY <2>1, <2>2 DEF Folds
    <3>4. h[s \ {Max(s)}] \in Nat
      BY <3>2
    <3> QED
      BY <3>1, <3>3, <3>4
  <2>3. h[{}] = 1
    BY <2>1 DEF Folds
  <2>4. h = [s \in SUBSET DOMAIN shape |-> IF s = {} THEN 1 ELSE CountStep(h[s \ {Max(s)}], shape[Max(s)])]
    BY <1>1, <2>2, <2>3
  <2> QED
    BY <2>4 DEF CountStep
<1>5. Equation(g)
  <2> HIDE DEF Equation
  <2> QED
    BY <1>4
<1>6. g = [s \in SUBSET (1 .. n) |-> IF s = {} THEN 1 ELSE CountStep(g[s \ {Max(s)}], shape[Max(s)])]
  BY <1>1, <1>5 DEF CountStep
<1> HIDE DEF g
<1> DEFINE R == [k \in 0 .. n |-> g[1 .. k]]
<1>7. R[0] = 1
  <2>1. 1 .. 0 = {} /\ {} \in SUBSET (1 .. n) /\ 0 \in 0 .. n
    BY <1>1
  <2> QED
    BY <1>6, <2>1
<1>8. ASSUME NEW k \in 1 .. n PROVE R[k] = CountStep(R[k - 1], shape[k])
  <2>1. k \in Nat \ {0} /\ 1 .. k \in SUBSET (1 .. n) /\ k \in 0 .. n /\ k - 1 \in 0 .. n
    BY <1>1
  <2>2. Max(1 .. k) = k /\ (1 .. k) \ {k} = 1 .. k - 1 /\ 1 .. k # {}
    BY <2>1, Firsts
  <2>3. g[1 .. k] = CountStep(g[1 .. k - 1], shape[k])
    BY <1>6, <2>1, <2>2
  <2> QED
    BY <2>1, <2>3
<1>9. \A k \in 0 .. n : R[k] \in Nat
  <2> DEFINE T == {k \in Nat : k <= n => R[k] \in Nat}
  <2>1. 0 \in T
    BY <1>7
  <2>2. ASSUME NEW k \in T PROVE k + 1 \in T
    <3>1. SUFFICES ASSUME k + 1 <= n PROVE R[k + 1] \in Nat
      OBVIOUS
    <3>2. k + 1 \in 1 .. n /\ (k + 1) - 1 = k /\ R[k] \in Nat
      BY <1>1, <3>1
    <3>3. R[k + 1] = CountStep(R[k], shape[k + 1])
      BY <1>8, <3>2
    <3>4. shape[k + 1] > 0 => R[k] * shape[k + 1] \in Nat
      BY <1>1, <3>2, Products
    <3> HIDE DEF R, n
    <3> QED
      BY <1>1, <3>2, <3>3, <3>4 DEF CountStep
  <2>3. T = Nat
    <3> HIDE DEF T
    <3>1. T \in SUBSET Nat
      BY DEF T
    <3> QED
      BY <2>1, <2>2, <3>1, Upward
  <2> HIDE DEF R, n
  <2> QED
    BY <1>1, <2>3
<1>10. R \in [0 .. n -> Nat] /\ R[n] = g[1 .. n]
  BY <1>1, <1>9
<1> HIDE DEF R, n
<1>11. ElementCount(shape) = R[n]
  BY <1>2, <1>10 DEF n
<1> QED
  BY <1>7, <1>8, <1>10, <1>11 DEF n

-----------------------------------------------------------------------------
(* Shapes, strides and tensors *)

\* How many elements there are in what follows each dimension.
Counts(Q, shape) ==
    /\ Q \in [0 .. Len(shape) -> Nat] /\ Q[Len(shape)] = 1
    /\ \A i \in 1 .. Len(shape) : Q[i - 1] = shape[i] * Q[i]

\* A quotient of naturals is one.
LEMMA Quotient == ASSUME NEW m \in Nat, NEW d \in Nat \ {0} PROVE m \div d \in Nat
  OBVIOUS

\* They exist for every shape.
LEMMA CountsExist == ASSUME NEW shape \in Seq(Nat) PROVE \E Q : Counts(Q, shape)
<1> DEFINE n == Len(shape)
           step == [k \in 1 .. n |-> [v \in Nat |-> shape[n - k + 1] * v]]
<1>1. n \in Nat /\ \A k \in 1 .. n : shape[k] \in Nat /\ n - k + 1 \in 1 .. n
  OBVIOUS
<1>2. step \in [1 .. n -> [Nat -> Nat]]
  <2>1. ASSUME NEW k \in 1 .. n, NEW v \in Nat PROVE shape[n - k + 1] * v \in Nat
    BY <1>1, Products
  <2> QED
    BY <2>1
<1>3. PICK R \in [0 .. n -> Nat] : R[0] = 1 /\ \A k \in 1 .. n : R[k] = step[k][R[k - 1]]
  <2>1. 1 \in Nat
    OBVIOUS
  <2>2. n \in Nat
    BY <1>1
  <2> DEFINE from == 1
  <2>3. from \in Nat
    BY <2>1
  <2> HIDE DEF step, n, from
  <2>4. \E R \in [0 .. n -> Nat] : Steps(R, n, from, step)
    BY <1>2, <2>2, <2>3, StepsExist
  <2> QED
    BY <2>4 DEF from, Steps
<1> DEFINE Q == [i \in 0 .. n |-> R[n - i]]
<1>4. Q \in [0 .. n -> Nat]
  <2>1. \A i \in 0 .. n : n - i \in 0 .. n
    BY <1>1
  <2> QED
    BY <2>1
<1>5. Q[n] = 1
  BY <1>1, <1>3
<1>6. ASSUME NEW i \in 1 .. n PROVE Q[i - 1] = shape[i] * Q[i]
  <2> DEFINE k == n - i + 1
  <2>1. k \in 1 .. n /\ k - 1 = n - i /\ n - (i - 1) = k /\ n - k + 1 = i /\ i - 1 \in 0 .. n /\ i \in 0 .. n
        /\ k - 1 \in 0 .. n
    BY <1>1
  <2>2. Q[i - 1] = R[k] /\ Q[i] = R[k - 1] /\ R[k - 1] \in Nat
    BY <2>1
  <2> HIDE DEF k
  <2>3. R[k] = shape[n - k + 1] * R[k - 1]
    BY <1>3, <2>1, <2>2
  <2> QED
    BY <2>1, <2>2, <2>3
<1> HIDE DEF Q
<1> QED
  BY <1>4, <1>5, <1>6 DEF Counts

\* There are some, and never more than there are in all.
LEMMA CountBounds ==
  ASSUME NEW shape \in Seq(Nat \ {0}), NEW Q, Counts(Q, shape)
  PROVE  \A i \in 0 .. Len(shape) : Q[i] \in 1 .. Q[0]
<1> DEFINE n == Len(shape)
           T == {j \in Nat : j <= n => Q[n - j] >= 1}
           U == {i \in Nat : i <= n => Q[i] <= Q[0]}
<1>1. /\ n \in Nat /\ Q \in [0 .. n -> Nat] /\ Q[n] = 1
      /\ \A i \in 1 .. n : shape[i] \in Nat \ {0} /\ Q[i - 1] = shape[i] * Q[i]
  BY DEF Counts
<1> HIDE DEF n
<1>2. 0 \in T
  BY <1>1
<1>3. ASSUME NEW j \in T PROVE j + 1 \in T
  <2>1. SUFFICES ASSUME j + 1 <= n PROVE Q[n - (j + 1)] >= 1
    OBVIOUS
  <2> DEFINE i == n - j
  <2>2. i \in 1 .. n /\ n - (j + 1) = i - 1 /\ Q[i] \in Nat /\ Q[i] >= 1 /\ 1 \in Nat
    BY <1>1, <2>1
  <2> HIDE DEF i
  <2>3. 1 * 1 <= 1 * Q[i] /\ 1 * Q[i] <= shape[i] * Q[i]
    <3>1. 1 \in Nat /\ shape[i] \in Nat /\ 1 <= shape[i] /\ Q[i] \in Nat /\ 1 <= Q[i]
      BY <1>1, <2>2
    <3>2. 1 * Q[i] <= shape[i] * Q[i]
      BY <3>1, Products
    <3> QED
      BY <3>1, <3>2
  <2>4. Q[i - 1] = shape[i] * Q[i] /\ shape[i] * Q[i] \in Nat
    BY <1>1, <2>2, Products
  <2> QED
    BY <2>2, <2>3, <2>4
<1>4. 0 \in U
  BY <1>1
<1>5. ASSUME NEW i \in U PROVE i + 1 \in U
  <2>1. SUFFICES ASSUME i + 1 <= n PROVE Q[i + 1] <= Q[0]
    OBVIOUS
  <2>2. i + 1 \in 1 .. n /\ (i + 1) - 1 = i /\ Q[i] \in Nat /\ Q[i + 1] \in Nat /\ Q[i] <= Q[0] /\ Q[0] \in Nat
    BY <1>1, <2>1
  <2>3. 1 * Q[i + 1] <= shape[i + 1] * Q[i + 1]
    <3>1. shape[i + 1] \in Nat /\ 1 <= shape[i + 1] /\ 1 \in Nat
      BY <1>1, <2>2
    <3> QED
      BY <2>2, <3>1, Products
  <2>4. Q[i] = shape[i + 1] * Q[i + 1]
    BY <1>1, <2>2
  <2> QED
    BY <2>2, <2>3, <2>4
<1>6. T = Nat /\ U = Nat
  <2> HIDE DEF T, U
  <2>1. T \in SUBSET Nat /\ U \in SUBSET Nat
    BY DEF T, U
  <2> QED
    BY <1>2, <1>3, <1>4, <1>5, <2>1, Upward
<1>7. ASSUME NEW i \in 0 .. n PROVE Q[i] \in 1 .. Q[0]
  <2>1. n - i \in Nat /\ i \in Nat /\ n - (n - i) = i /\ n - i <= n /\ i <= n /\ 0 \in 0 .. n
    BY <1>1
  <2>2. n - i \in T /\ i \in U
    BY <1>6, <2>1
  <2>3. Q[n - (n - i)] >= 1 /\ Q[i] <= Q[0]
    BY <2>1, <2>2
  <2>4. Q[i] \in Nat /\ Q[0] \in Nat
    BY <1>1, <2>1
  <2> QED
    BY <2>1, <2>3, <2>4
<1> QED
  BY <1>7 DEF n

\* What follows a dimension is counted exactly when the whole can be.
LEMMA CountOfRest ==
  ASSUME NEW shape \in Seq(Nat \ {0}), NEW Q, Counts(Q, shape), Q[0] <= SizeMax,
         NEW i \in 0 .. Len(shape)
  PROVE  ElementCount(SubSeq(shape, i + 1, Len(shape))) = Q[i]
<1> DEFINE n == Len(shape)
           s == SubSeq(shape, i + 1, n)
<1>1. /\ n \in Nat /\ Q \in [0 .. n -> Nat] /\ Q[n] = 1
      /\ \A j \in 1 .. n : shape[j] \in Nat \ {0} /\ Q[j - 1] = shape[j] * Q[j]
      /\ \A j \in 0 .. n : Q[j] \in 1 .. Q[0]
      /\ SizeMax \in Nat
  <2>1. \A j \in 0 .. n : Q[j] \in 1 .. Q[0]
    BY CountBounds
  <2>2. Q \in [0 .. n -> Nat] /\ Q[n] = 1 /\ \A j \in 1 .. n : Q[j - 1] = shape[j] * Q[j]
    BY DEF Counts
  <2>3. n \in Nat /\ \A j \in 1 .. n : shape[j] \in Nat \ {0}
    OBVIOUS
  <2> QED
    BY <2>1, <2>2, <2>3, SizeMaxAssumption
<1>2. s \in Seq(Nat \ {0}) /\ Len(s) = n - i /\ \A k \in 1 .. n - i : s[k] = shape[i + k]
  OBVIOUS
<1> HIDE DEF s
<1>3. s \in Seq(Int)
  BY <1>2
<1>4. PICK R \in [0 .. n - i -> Nat] :
            /\ R[0] = 1 /\ \A k \in 1 .. n - i : R[k] = CountStep(R[k - 1], s[k])
            /\ ElementCount(s) = R[n - i]
  BY <1>2, <1>3, CountSteps
<1> HIDE DEF n
<1> DEFINE T == {k \in Nat : k <= n - i => R[k] * Q[i + k] = Q[i]}
<1>5. 0 \in T
  <2>1. i \in 0 .. n /\ Q[i] \in Nat /\ i + 0 = i
    BY <1>1 DEF n
  <2> QED
    BY <1>4, <2>1
<1>6. ASSUME NEW k \in T PROVE k + 1 \in T
  <2>1. SUFFICES ASSUME k + 1 <= n - i PROVE R[k + 1] * Q[i + (k + 1)] = Q[i]
    OBVIOUS
  <2> DEFINE j == i + k + 1
  <2>2. /\ j \in 1 .. n /\ j - 1 = i + k /\ i + (k + 1) = j /\ k + 1 \in 1 .. n - i /\ (k + 1) - 1 = k
        /\ k \in 0 .. n - i /\ R[k] \in Nat /\ i \in 0 .. n /\ j - 1 \in 0 .. n /\ j \in 0 .. n
        /\ R[k] * Q[i + k] = Q[i] /\ i + k = j - 1
    <3>1. n \in Nat /\ i \in 0 .. n /\ k \in Nat /\ k + 1 <= n - i
      BY <1>1, <2>1 DEF n
    <3>2. k \in 0 .. n - i /\ k <= n - i
      BY <3>1
    <3>3. R[k] \in Nat
      BY <1>4, <3>2
    <3>4. R[k] * Q[i + k] = Q[i]
      BY <3>2
    <3> QED
      BY <3>1, <3>3, <3>4
  <2> HIDE DEF j
  <2> DEFINE d == shape[j]
             q == Q[j]
             r == R[k]
  <2>3. d \in Nat \ {0} /\ q \in Nat /\ q >= 1 /\ r \in Nat /\ Q[j - 1] = d * q /\ Q[i] \in 1 .. Q[0] /\ Q[0] \in Nat
    <3>1. d \in Nat \ {0} /\ Q[j - 1] = d * q
      BY <1>1, <2>2
    <3>2. 0 \in 0 .. n
      BY <1>1
    <3>3. q \in Nat /\ Q[0] \in Nat
      BY <1>1, <2>2, <3>2
    <3>4. q \in 1 .. Q[0] /\ Q[i] \in 1 .. Q[0]
      BY <1>1, <2>2
    <3> HIDE DEF d, q
    <3> QED
      BY <2>2, <3>1, <3>3, <3>4
  <2>4. r * (d * q) = Q[i]
    BY <2>2, <2>3
  <2>5. R[k + 1] = CountStep(r, d)
    BY <1>2, <1>4, <2>2
  <2> HIDE DEF d, q, r
  <2>6. r # 0
    BY <2>3, <2>4
  <2>7. r * d \in Nat /\ r * d <= SizeMax
    <3> DEFINE p == r * d
    <3>1. p \in Nat
      BY <2>3, Products
    <3>2. p * q = Q[i]
      BY <2>3, <2>4
    <3> HIDE DEF p
    <3>3. p * 1 <= p * q
      <4>1. 1 \in Nat /\ 1 <= q
        BY <2>3
      <4> QED
        BY <2>3, <3>1, <4>1, Products
    <3>4. p * 1 = p
      BY <3>1
    <3>5. Q[i] <= SizeMax
      <4>1. Q[0] <= SizeMax
        OBVIOUS
      <4> QED
        BY <2>3, <4>1, SizeMaxAssumption
    <3>6. p <= Q[i]
      BY <3>2, <3>3, <3>4
    <3>7. Q[i] \in Nat
      BY <2>3
    <3>8. p <= SizeMax
      <4> DEFINE all == Q[i]
      <4> HIDE DEF all
      <4> QED
        BY <3>1, <3>5, <3>6, <3>7, SizeMaxAssumption DEF all
    <3> QED
      BY <3>1, <3>8 DEF p
  <2>8. ~(r > SizeMax \div d)
    <3>1. r <= SizeMax \div d
      BY <2>3, <2>7, Quotients, SizeMaxAssumption
    <3>2. SizeMax \div d \in Nat
      BY <2>3, Quotient, SizeMaxAssumption
    <3> QED
      BY <2>3, <3>1, <3>2
  <2>9. R[k + 1] = r * d
    BY <2>3, <2>5, <2>6, <2>8 DEF CountStep
  <2>10. (r * d) * q = Q[i]
    BY <2>3, <2>4
  <2> QED
    BY <2>2, <2>9, <2>10 DEF q
<1>7. T = Nat
  <2> HIDE DEF T
  <2>1. T \in SUBSET Nat
    BY DEF T
  <2> QED
    BY <1>5, <1>6, <2>1, Upward
<1>8. n - i \in Nat /\ n - i \in 0 .. n - i /\ i + (n - i) = n
  BY <1>1 DEF n
<1>9. R[n - i] * Q[n] = Q[i]
  <2> HIDE DEF T
  <2>1. n - i \in T
    BY <1>7, <1>8
  <2> QED
    BY <1>8, <2>1 DEF T
<1>10. R[n - i] = Q[i]
  <2>1. R[n - i] \in Nat /\ Q[n] = 1
    BY <1>1, <1>4, <1>8
  <2> QED
    BY <1>9, <2>1
<1>11. ElementCount(s) = Q[i]
  BY <1>4, <1>10
<1> QED
  BY <1>11 DEF s, n

\* A shape is counted exactly, or not at all.
LEMMA CountExact ==
  ASSUME NEW shape \in Seq(Nat \ {0}), NEW Q, Counts(Q, shape)
  PROVE  ElementCount(shape) = IF Q[0] <= SizeMax THEN Q[0] ELSE 0
<1> DEFINE n == Len(shape)
<1>1. /\ n \in Nat /\ Q \in [0 .. n -> Nat] /\ Q[n] = 1
      /\ \A j \in 1 .. n : shape[j] \in Nat \ {0} /\ Q[j - 1] = shape[j] * Q[j]
      /\ SizeMax \in Nat \ {0} /\ 0 \in 0 .. n
  BY SizeMaxAssumption DEF Counts
<1>2. CASE Q[0] <= SizeMax
  <2>1. SubSeq(shape, 0 + 1, n) = shape
    OBVIOUS
  <2>2. 0 \in 0 .. Len(shape)
    OBVIOUS
  <2>3. ElementCount(SubSeq(shape, 0 + 1, Len(shape))) = Q[0]
    BY <1>2, <2>2, CountOfRest
  <2> QED
    BY <1>2, <2>1, <2>3
<1>3. CASE ~(Q[0] <= SizeMax)
  <2>1. shape \in Seq(Int)
    OBVIOUS
  <2>2. PICK R \in [0 .. n -> Nat] :
              /\ R[0] = 1 /\ \A k \in 1 .. n : R[k] = CountStep(R[k - 1], shape[k])
              /\ ElementCount(shape) = R[n]
    BY <2>1, CountSteps
  <2> HIDE DEF n
  <2> DEFINE Exact(k) == R[k] <= SizeMax /\ R[k] * Q[k] = Q[0]
             T == {k \in Nat : k <= n => R[k] = 0 \/ Exact(k)}
  <2>3. 0 \in T
    BY <1>1, <2>2
  <2>4. ASSUME NEW k \in T PROVE k + 1 \in T
    <3>1. SUFFICES ASSUME k + 1 <= n, R[k + 1] # 0
                   PROVE  Exact(k + 1)
      <4> HIDE DEF Exact
      <4> QED
        OBVIOUS
    <3> DEFINE d == shape[k + 1]
               q == Q[k + 1]
               r == R[k]
    <3>2. k + 1 \in 1 .. n /\ (k + 1) - 1 = k /\ k + 1 \in 0 .. n /\ k \in 0 .. n
      BY <1>1, <3>1
    <3>3. d \in Nat \ {0} /\ q \in Nat /\ r \in Nat /\ Q[k] = d * q /\ R[k + 1] = CountStep(r, d)
      BY <1>1, <2>2, <3>2
    <3>4. r = 0 \/ r * Q[k] = Q[0]
      BY <3>2
    <3> HIDE DEF d, q, r
    <3>5. r # 0 /\ ~(r > SizeMax \div d) /\ R[k + 1] = r * d
      BY <3>1, <3>3 DEF CountStep
    <3>6. r * d <= SizeMax
      <4>1. SizeMax \div d \in Nat
        BY <3>3, Quotient, SizeMaxAssumption
      <4>2. r <= SizeMax \div d
        BY <3>3, <3>5, <4>1
      <4> QED
        BY <3>3, <4>2, Quotients, SizeMaxAssumption
    <3>7. (r * d) * q = r * (d * q)
      BY <3>3
    <3> QED
      BY <3>3, <3>4, <3>5, <3>6, <3>7 DEF q
  <2>5. T = Nat
    <3> HIDE DEF T
    <3>1. T \in SUBSET Nat
      BY DEF T
    <3> QED
      BY <2>3, <2>4, <3>1, Upward
  <2>6. n \in T
    BY <1>1, <2>5
  <2>7. R[n] \in Nat /\ Q[0] \in Nat /\ 0 \in 0 .. n /\ n \in 0 .. n
    BY <1>1
  <2> QED
    BY <1>1, <1>3, <2>2, <2>6, <2>7
<1> QED
  BY <1>2, <1>3

\* One step of the bytes that are required.
BytesStep(total, shape, strides, i) ==
    UNION {LET extent == shape[i] - 1
           IN  Only(extent = 0 \/ strides[i] <= (SizeMax - sum) \div extent,
                    Wrap(sum + extent * strides[i])) : sum \in total}

BytesChain(R, size, shape, strides) ==
    R[0] = {size} /\ \A k \in 1 .. Len(shape) : R[k] = BytesStep(R[k - 1], shape, strides, k)

\* The bytes that are required are the value of such steps.
LEMMA BytesSteps ==
  ASSUME NEW size \in Nat, NEW shape \in Seq(Nat \ {0}), NEW strides \in Seq(Nat), Len(strides) = Len(shape),
         NEW R, BytesChain(R, size, shape, strides)
  PROVE  RequiredBytes(size, shape, strides) = R[Len(shape)]
<1> DEFINE n == Len(shape)
           V == SUBSET Nat
           step == [k \in 1 .. n |-> [v \in V |-> BytesStep(v, shape, strides, k)]]
           indices == [i \in DOMAIN shape |-> i]
           Equation(g) == g = [s \in SUBSET DOMAIN indices |->
                                 IF s = {} THEN {size}
                                 ELSE LET x == Max(s)
                                      IN  UNION {LET extent == shape[indices[x]] - 1
                                                 IN  Only(extent = 0 \/ strides[indices[x]] <= (SizeMax - sum) \div extent,
                                                          Wrap(sum + extent * strides[indices[x]])) : sum \in g[s \ {x}]}]
           g == CHOOSE g : Equation(g)
<1>1. /\ n \in Nat /\ DOMAIN shape = 1 .. n /\ DOMAIN indices = 1 .. n /\ \A k \in 1 .. n : indices[k] = k
      /\ \A k \in 1 .. n : shape[k] \in Nat \ {0} /\ strides[k] \in Nat
  OBVIOUS
<1>2. RequiredBytes(size, shape, strides) = g[1 .. n]
  BY <1>1 DEF RequiredBytes, FoldLeft, MapThenFoldSet
<1> HIDE DEF indices
<1>3. step \in [1 .. n -> [V -> V]]
  <2>1. ASSUME NEW k \in 1 .. n, NEW v \in V PROVE BytesStep(v, shape, strides, k) \in V
    <3>1. ASSUME NEW sum \in v PROVE Wrap(sum + (shape[k] - 1) * strides[k]) \in Nat
      <4>1. shape[k] - 1 \in Nat /\ strides[k] \in Nat /\ sum \in Nat
        BY <1>1
      <4>2. (shape[k] - 1) * strides[k] \in Nat
        <5> DEFINE e == shape[k] - 1
        <5>1. e \in Nat /\ strides[k] \in Nat
          BY <4>1
        <5> HIDE DEF e
        <5>2. e * strides[k] \in Nat
          BY <5>1, Product
        <5> QED
          BY <5>2 DEF e
      <4>3. sum + (shape[k] - 1) * strides[k] \in Nat
        <5> DEFINE more == (shape[k] - 1) * strides[k]
        <5>1. more \in Nat /\ sum \in Nat
          BY <4>1, <4>2
        <5> HIDE DEF more
        <5>2. sum + more \in Nat
          BY <5>1
        <5> QED
          BY <5>2 DEF more
      <4> QED
        BY <4>3, SizeMaxAssumption DEF Wrap
    <3> QED
      BY <3>1 DEF BytesStep, Only
  <2> QED
    BY <2>1
<1>4. \E h : Equation(h)
  <2> DEFINE base == {size}
  <2>1. PICK h \in [SUBSET (1 .. n) -> V] : Folds(h, n, base, step)
    <3>1. base \in V
      OBVIOUS
    <3> HIDE DEF step, n, V, base
    <3> QED
      BY <1>1, <1>3, <3>1, FoldExists
  <2>2. ASSUME NEW s \in SUBSET (1 .. n), s # {}
        PROVE  h[s] = BytesStep(h[s \ {Max(s)}], shape, strides, Max(s))
    <3>1. Max(s) \in 1 .. n
      BY <1>1, <2>2, LargestExists
    <3>2. s \ {Max(s)} \in SUBSET (1 .. n)
      OBVIOUS
    <3>3. h[s] = step[Max(s)][h[s \ {Max(s)}]]
      BY <2>1, <2>2 DEF Folds
    <3>4. h[s \ {Max(s)}] \in V
      BY <3>2
    <3> QED
      BY <3>1, <3>3, <3>4
  <2>3. h[{}] = {size}
    BY <2>1 DEF Folds
  <2>4. ASSUME NEW s \in SUBSET (1 .. n), s # {} PROVE indices[Max(s)] = Max(s)
    BY <1>1, <2>4, LargestExists
  <2>5. h = [s \in SUBSET (1 .. n) |-> IF s = {} THEN {size} ELSE BytesStep(h[s \ {Max(s)}], shape, strides, indices[Max(s)])]
    <3> HIDE DEF n
    <3> QED
      BY <2>2, <2>3, <2>4
  <2>6. h = [s \in SUBSET DOMAIN indices |-> IF s = {} THEN {size} ELSE BytesStep(h[s \ {Max(s)}], shape, strides, indices[Max(s)])]
    <3> HIDE DEF n
    <3> QED
      BY <1>1, <2>5
  <2>7. Equation(h)
    BY <2>6 DEF BytesStep
  <2> QED
    BY <2>7
<1>5. Equation(g)
  <2> HIDE DEF Equation
  <2> QED
    BY <1>4
<1>6. g = [s \in SUBSET (1 .. n) |-> IF s = {} THEN {size} ELSE BytesStep(g[s \ {Max(s)}], shape, strides, indices[Max(s)])]
  BY <1>1, <1>5 DEF BytesStep
<1> HIDE DEF g, n
<1>7. g[{}] = R[0]
  <2>1. {} \in SUBSET (1 .. n)
    OBVIOUS
  <2> QED
    BY <1>6, <2>1 DEF BytesChain
<1>8. ASSUME NEW k \in 1 .. n, g[1 .. k - 1] = R[k - 1] PROVE g[1 .. k] = R[k]
  <2>1. k \in Nat \ {0} /\ 1 .. k \in SUBSET (1 .. n)
    BY <1>1
  <2>2. Max(1 .. k) = k /\ (1 .. k) \ {k} = 1 .. k - 1 /\ 1 .. k # {}
    BY <2>1, Firsts
  <2>3. g[1 .. k] = BytesStep(g[1 .. k - 1], shape, strides, k)
    <3>1. g[1 .. k] = BytesStep(g[(1 .. k) \ {Max(1 .. k)}], shape, strides, indices[Max(1 .. k)])
      BY <1>6, <2>1, <2>2
    <3>2. indices[k] = k
      BY <1>1
    <3> QED
      BY <2>2, <3>1, <3>2
  <2> QED
    BY <1>8, <2>3 DEF n, BytesChain
<1>9. g[1 .. n] = R[n]
  <2>1. n \in Nat
    BY <1>1
  <2>2. \A k \in 1 .. n : g[1 .. k - 1] = R[k - 1] => g[1 .. k] = R[k]
    BY <1>8
  <2> QED
    BY <1>7, <2>1, <2>2, FoldValue
<1> QED
  BY <1>2, <1>9 DEF n

\* The bytes and the strides of a shape without gaps.
Packed(type, shape, Q) ==
    [bytes |-> DataTypeSize[type] * Q[0], strides |-> [i \in DOMAIN shape |-> DataTypeSize[type] * Q[i]]]

\* An element has from one to four bytes.
LEMMA ElementBytes == \A type \in DataTypes : DataTypeSize[type] \in 1 .. 4
  BY DEF DataTypeSize, DataTypes

\* They are what ContiguousByteStrides() gives when they fit.
LEMMA ContiguousExact ==
  ASSUME NEW type \in DataTypes, NEW shape \in Seq(Nat \ {0}), NEW Q, Counts(Q, shape),
         DataTypeSize[type] * Q[0] <= SizeMax
  PROVE  /\ ContiguousByteStrides(shape, type) = Packed(type, shape, Q).strides
         /\ ElementCount(shape) = Q[0] /\ Q[0] <= SizeMax \div DataTypeSize[type] /\ Q[0] <= SizeMax
<1> DEFINE z == DataTypeSize[type]
           n == Len(shape)
<1>1. z \in Nat \ {0} /\ SizeMax \in Nat
  BY ElementBytes, SizeMaxAssumption
<1>2. Q[0] \in Nat /\ Q[0] >= 1
  <2>1. 0 \in 0 .. n
    OBVIOUS
  <2>2. Q[0] \in 1 .. Q[0] /\ Q[0] \in Nat
    BY <2>1, CountBounds DEF Counts
  <2> QED
    BY <2>2
<1> HIDE DEF z
<1>3. z * Q[0] <= SizeMax
  BY DEF z
<1>4. Q[0] * z = z * Q[0]
  BY <1>1, <1>2
<1>5. Q[0] <= SizeMax \div z
  BY <1>1, <1>2, <1>3, <1>4, Quotients
<1>6. Q[0] <= SizeMax
  <2>1. 1 * Q[0] <= z * Q[0]
    <3>1. 1 \in Nat /\ 1 <= z /\ z \in Nat
      BY <1>1
    <3> QED
      BY <1>2, <3>1, Products
  <2>2. 1 * Q[0] = Q[0] /\ z * Q[0] \in Nat
    BY <1>1, <1>2, Products
  <2> QED
    BY <1>1, <1>2, <1>3, <2>1, <2>2
<1>7. ElementCount(shape) = Q[0]
  BY <1>6, CountExact
<1>8. \A i \in 1 .. n : ElementCount(SubSeq(shape, i + 1, n)) = Q[i]
  <2> TAKE i \in 1 .. n
  <2>1. i \in 0 .. n
    OBVIOUS
  <2> QED
    BY <1>6, <2>1, CountOfRest
<1>9. ElementCount(shape) \in 1 .. SizeMax \div z
  <2>1. SizeMax \div z \in Nat
    BY <1>1, Quotient
  <2> QED
    BY <1>2, <1>5, <1>7, <2>1
<1>10. ContiguousByteStrides(shape, type) = [i \in DOMAIN shape |-> z * Q[i]]
  <2>1. DOMAIN shape = 1 .. n
    OBVIOUS
  <2> QED
    BY <1>8, <1>9, <2>1 DEF ContiguousByteStrides, z
<1> QED
  BY <1>5, <1>6, <1>7, <1>10 DEF Packed, z

\* The strides of a shape without gaps ask for exactly its bytes.
LEMMA PackedBytes ==
  ASSUME NEW type \in DataTypes, NEW shape \in Seq(Nat \ {0}), NEW Q, Counts(Q, shape),
         DataTypeSize[type] * Q[0] <= SizeMax
  PROVE  RequiredBytes(DataTypeSize[type], shape, Packed(type, shape, Q).strides) = {DataTypeSize[type] * Q[0]}
<1> DEFINE z == DataTypeSize[type]
           n == Len(shape)
           strides == Packed(type, shape, Q).strides
           R == [k \in 0 .. n |-> {z * (1 + Q[0] - Q[k])}]
<1>1. /\ n \in Nat /\ DOMAIN shape = 1 .. n /\ Q \in [0 .. n -> Nat] /\ Q[n] = 1
      /\ \A j \in 1 .. n : shape[j] \in Nat \ {0} /\ Q[j - 1] = shape[j] * Q[j]
      /\ \A j \in 0 .. n : Q[j] \in 1 .. Q[0]
  BY CountBounds DEF Counts
<1>2. z \in Nat \ {0} /\ SizeMax \in Nat
  BY ElementBytes, SizeMaxAssumption
<1>3. z * Q[0] <= SizeMax /\ Q[0] \in Nat /\ 0 \in 0 .. n
  BY <1>1
<1>4. strides = [i \in 1 .. n |-> z * Q[i]]
  BY <1>1 DEF Packed
<1> HIDE DEF z, strides, n
<1>5. strides \in Seq(Nat) /\ Len(strides) = n
  <2>1. \A i \in 1 .. n : z * Q[i] \in Nat
    <3> TAKE i \in 1 .. n
    <3>1. Q[i] \in Nat /\ z \in Nat
      BY <1>1, <1>2
    <3> QED
      BY <3>1, Products
  <2> QED
    BY <1>1, <1>4, <2>1
<1>6. R[0] = {z}
  BY <1>2, <1>3
<1>7. ASSUME NEW k \in 1 .. n PROVE R[k] = BytesStep(R[k - 1], shape, strides, k)
  <2> DEFINE a == Q[0]
             b == Q[k - 1]
             q == Q[k]
             d == shape[k]
             sum == z * (1 + a - b)
             next == z * (1 + a - q)
  <2>1. k \in 0 .. n /\ k - 1 \in 0 .. n
    BY <1>1
  <2>2. d \in Nat \ {0} /\ a \in Nat /\ b \in 1 .. a /\ q \in 1 .. a /\ b = d * q
    BY <1>1, <1>3, <2>1
  <2>3. R[k] = {next} /\ R[k - 1] = {sum} /\ strides[k] = z * q
    BY <1>4, <2>1
  <2>4. BytesStep({sum}, shape, strides, k)
          = Only(d - 1 = 0 \/ strides[k] <= (SizeMax - sum) \div (d - 1), Wrap(sum + (d - 1) * strides[k]))
    BY DEF BytesStep
  <2>5. z * a <= SizeMax
    BY <1>3
  <2> HIDE DEF a, b, q, d
  <2>6. sum + (d - 1) * (z * q) = next
    <3>1. (d - 1) * (z * q) = z * (d * q) - z * q
      BY <1>2, <2>2
    <3>2. sum = z + z * a - z * b /\ next = z + z * a - z * q
      BY <1>2, <2>2
    <3>3. z * (d * q) = z * b
      BY <2>2
    <3> DEFINE za == z * a
               zb == z * b
               zq == z * q
               zdq == z * (d * q)
    <3>4. za \in Nat /\ zb \in Nat /\ zq \in Nat
      BY <1>2, <2>2, Products
    <3> HIDE DEF za, zb, zq, zdq
    <3> QED
      BY <1>2, <3>1, <3>2, <3>3, <3>4 DEF za, zb, zq, zdq
  <2>7. sum \in Nat /\ next \in Nat /\ next <= z * a
    <3>1. 1 + a - b \in Nat /\ 1 + a - q \in Nat /\ 1 + a - q <= a
      BY <2>2
    <3> DEFINE u == 1 + a - b
               v == 1 + a - q
    <3> HIDE DEF u, v
    <3>2. z * u \in Nat /\ z * v \in Nat /\ z * v <= z * a
      <4>1. u \in Nat /\ v \in Nat /\ v <= a /\ a \in Nat /\ z \in Nat
        BY <1>2, <2>2, <3>1 DEF u, v
      <4> QED
        BY <4>1, Products
    <3> QED
      BY <3>2 DEF u, v
  <2>8. next \in Sizes
    <3> HIDE DEF next
    <3>1. z * a \in Nat
      BY <1>2, <2>2, Products
    <3> QED
      BY <2>5, <2>7, <3>1, SizeMaxAssumption DEF Sizes
  <2>9. Wrap(next) = next
    <3> HIDE DEF next
    <3> QED
      BY <2>8, Fits
  <2>10. d - 1 = 0 \/ z * q <= (SizeMax - sum) \div (d - 1)
    <3>1. SUFFICES ASSUME d - 1 # 0 PROVE z * q <= (SizeMax - sum) \div (d - 1)
      OBVIOUS
    <3> DEFINE zq == z * q
               e == d - 1
               room == SizeMax - sum
    <3>2. zq \in Nat /\ e \in Nat \ {0}
      BY <1>2, <2>2, <3>1, Products
    <3> HIDE DEF e, zq
    <3>3. zq * e = e * zq /\ e * zq \in Nat
      BY <3>2, Products
    <3>4. sum + e * zq = next
      BY <2>6 DEF e, zq
    <3> HIDE DEF next, sum
    <3>5. room \in Nat /\ zq * e <= room
      BY <1>2, <2>7, <2>8, <3>3, <3>4 DEF Sizes
    <3> HIDE DEF room
    <3>6. zq <= room \div e
      BY <3>2, <3>5, Quotients
    <3> QED
      BY <3>6 DEF zq, e, room
  <2> HIDE DEF sum, next
  <2>11. Wrap(sum + (d - 1) * strides[k]) = next
    BY <2>3, <2>6, <2>9
  <2> QED
    BY <2>3, <2>4, <2>10, <2>11 DEF Only
<1> HIDE DEF R
<1>8. RequiredBytes(z, shape, strides) = R[n]
  <2>1. z \in Nat /\ Len(strides) = Len(shape)
    BY <1>2, <1>5 DEF n
  <2>2. BytesChain(R, z, shape, strides)
    BY <1>6, <1>7 DEF n, BytesChain
  <2>3. RequiredBytes(z, shape, strides) = R[Len(shape)]
    BY <1>5, <2>1, <2>2, BytesSteps
  <2> QED
    BY <2>3 DEF n
<1>9. R[n] = {z * Q[0]}
  <2>1. n \in 0 .. n /\ 1 + Q[0] - Q[n] = Q[0]
    BY <1>1, <1>3
  <2> QED
    BY <2>1 DEF R
<1> QED
  BY <1>8, <1>9 DEF z, strides

\* A tensor without gaps is accepted when its bytes fit a size, and then has
\* exactly those.
LEMMA MetadataExact ==
  ASSUME NEW type \in DataTypes, NEW shape \in Seq(Nat \ {0}), NEW Q, Counts(Q, shape)
  PROVE  ValidateMetadata(type, shape, << >>)
            = IF DataTypeSize[type] * Q[0] <= SizeMax THEN {Packed(type, shape, Q)} ELSE {}
<1> DEFINE z == DataTypeSize[type]
           contiguous == ContiguousByteStrides(shape, type)
           packed == Packed(type, shape, Q)
<1>1. z \in Nat \ {0} /\ SizeMax \in Nat /\ Q[0] \in Nat /\ Q[0] >= 1
  <2>1. 0 \in 0 .. Len(shape)
    OBVIOUS
  <2>2. Q[0] \in 1 .. Q[0] /\ Q[0] \in Nat
    BY <2>1, CountBounds DEF Counts
  <2> QED
    BY <2>2, ElementBytes, SizeMaxAssumption
<1>2. IsConcrete(shape)
  BY DEF IsConcrete
<1>3. ValidateMetadata(type, shape, << >>)
         = IF ElementCount(shape) > 0 /\ ElementCount(shape) <= SizeMax \div z /\ Len(contiguous) = Len(shape)
           THEN {[bytes |-> bytes, strides |-> contiguous] : bytes \in RequiredBytes(z, shape, contiguous)}
           ELSE {}
  BY <1>2 DEF ValidateMetadata
<1> HIDE DEF z, contiguous
<1>4. CASE z * Q[0] <= SizeMax
  <2>1. contiguous = packed.strides /\ ElementCount(shape) = Q[0] /\ Q[0] <= SizeMax \div z
    BY <1>4, ContiguousExact DEF z, contiguous
  <2>2. RequiredBytes(z, shape, contiguous) = {z * Q[0]}
    BY <1>4, <2>1, PackedBytes DEF z
  <2>3. Len(contiguous) = Len(shape)
    BY <2>1 DEF Packed
  <2>4. packed = [bytes |-> z * Q[0], strides |-> contiguous]
    BY <2>1 DEF Packed, z
  <2> QED
    BY <1>1, <1>3, <1>4, <2>1, <2>2, <2>3, <2>4 DEF z
<1>5. CASE ~(z * Q[0] <= SizeMax)
  <2>1. ElementCount(shape) = 0 \/ ElementCount(shape) = Q[0]
    BY CountExact
  <2>2. ~(Q[0] <= SizeMax \div z)
    <3>1. Q[0] * z = z * Q[0]
      BY <1>1
    <3> QED
      BY <1>1, <1>5, <3>1, Quotients
  <2> QED
    BY <1>1, <1>3, <1>5, <2>1, <2>2 DEF z
<1> QED
  BY <1>4, <1>5 DEF z

\* The tensor of a shape without gaps, computed without a limit.
TensorOf(capacity, offset, type, shape, layout, Q) ==
    [offset |-> offset, bytes |-> DataTypeSize[type] * Q[0], type |-> type, shape |-> shape,
     strides |-> Packed(type, shape, Q).strides, layout |-> layout, capacity |-> capacity]

\* Tensor::create() accepts what fits in the buffer, and nothing wraps.
LEMMA TensorExact ==
  ASSUME NEW capacity \in Nat, NEW offset \in Nat, NEW type \in DataTypes, NEW shape \in Seq(Nat \ {0}), NEW layout,
         NEW Q, Counts(Q, shape)
  PROVE  CreateTensor(capacity, offset, type, shape, layout, << >>)
            = IF DataTypeSize[type] * Q[0] <= SizeMax /\ offset + DataTypeSize[type] * Q[0] <= capacity
              THEN {TensorOf(capacity, offset, type, shape, layout, Q)} ELSE {}
<1> DEFINE bytes == DataTypeSize[type] * Q[0]
           packed == Packed(type, shape, Q)
<1>1. bytes \in Nat
  <2>1. 0 \in 0 .. Len(shape)
    OBVIOUS
  <2>2. DataTypeSize[type] \in 1 .. 4
    BY ElementBytes
  <2>3. Q[0] \in Nat
    BY <2>1 DEF Counts
  <2> QED
    BY <2>2, <2>3, Products
<1>2. ValidateMetadata(type, shape, << >>) = IF bytes <= SizeMax THEN {packed} ELSE {}
  BY MetadataExact
<1>3. packed.bytes = bytes
  BY DEF Packed
<1>4. TensorOf(capacity, offset, type, shape, layout, Q)
        = [offset |-> offset, bytes |-> bytes, type |-> type, shape |-> shape,
           strides |-> packed.strides, layout |-> layout, capacity |-> capacity]
  BY DEF TensorOf
<1> HIDE DEF bytes, packed
<1>5. CASE bytes <= SizeMax
  <2>1. CreateTensor(capacity, offset, type, shape, layout, << >>)
          = {[offset |-> offset, bytes |-> m.bytes, type |-> type, shape |-> shape,
              strides |-> m.strides, layout |-> layout, capacity |-> capacity] :
                 m \in {m \in {packed} : offset <= capacity /\ m.bytes <= capacity - offset}}
    BY <1>2, <1>5 DEF CreateTensor
  <2>2. offset <= capacity /\ bytes <= capacity - offset <=> offset + bytes <= capacity
    BY <1>1
  <2> QED
    BY <1>3, <1>4, <1>5, <2>1, <2>2 DEF bytes
<1>6. CASE ~(bytes <= SizeMax)
  BY <1>2, <1>6 DEF CreateTensor, bytes
<1> QED
  BY <1>5, <1>6

-----------------------------------------------------------------------------
(* Batches *)

\* A sequence of n members is a function of their positions.
LEMMA Positions ==
  ASSUME NEW n \in Nat, NEW D, NEW s PROVE s \in [1 .. n -> D] <=> s \in Seq(D) /\ Len(s) = n
<1>1. ASSUME s \in [1 .. n -> D] PROVE s \in Seq(D) /\ Len(s) = n
  <2>1. s \in Seq(D)
    BY <1>1
  <2>2. DOMAIN s = 1 .. n /\ DOMAIN s = 1 .. Len(s) /\ Len(s) \in Nat
    BY <1>1, <2>1
  <2> QED
    BY <2>1, <2>2
<1>2. ASSUME s \in Seq(D), Len(s) = n PROVE s \in [1 .. n -> D]
  BY <1>2
<1> QED
  BY <1>1, <1>2

\* Two sequences, one after the other.
LEMMA Joined ==
  ASSUME NEW D, NEW s \in Seq(D), NEW t \in Seq(D)
  PROVE  /\ s \o t \in Seq(D) /\ Len(s \o t) = Len(s) + Len(t)
         /\ \A j \in 1 .. Len(s) : (s \o t)[j] = s[j]
         /\ \A j \in 1 .. Len(t) : (s \o t)[Len(s) + j] = t[j]
  OBVIOUS

\* The i-th member begins after those before it, and ends before the next.
LEMMA PlaceInRow ==
  ASSUME NEW b \in Nat \ {0}, NEW k \in Nat, NEW i \in 1 .. k, NEW j \in 1 .. b
  PROVE  (i - 1) * b + j \in 1 .. k * b /\ (i - 1) * b \in Nat /\ (i - 1) * b + b <= k * b
<1>1. i * b <= k * b /\ (i - 1) * b \in Nat /\ k * b \in Nat
  BY Products
<1>2. (i - 1) * b + b = i * b
  OBVIOUS
<1> QED
  BY <1>1, <1>2

\* Each of n sequences of length b is found at its place.
InPlace(F, seqs, n, b) == \A i \in 1 .. n : SubSeq(F, (i - 1) * b + 1, (i - 1) * b + b) = seqs[i]

\* Members of one length, one after the other: the i-th is found at its place.
LEMMA FlattenExact ==
  ASSUME NEW n \in Nat \ {0}, NEW b \in Nat \ {0}, NEW D, NEW seqs \in [1 .. n -> [1 .. b -> D]]
  PROVE  FlattenSeq(seqs) \in [1 .. n * b -> D] /\ InPlace(FlattenSeq(seqs), seqs, n, b)
<1> DEFINE Equation(f) == f = [i \in 1 .. Len(seqs) |-> IF i = 1 THEN seqs[i] ELSE f[i - 1] \o seqs[i]]
           f == CHOOSE f : Equation(f)
<1>1. seqs \in Seq([1 .. b -> D]) /\ Len(seqs) = n /\ \A i \in 1 .. n : seqs[i] \in Seq(D) /\ Len(seqs[i]) = b
  <2>1. \A i \in 1 .. n : seqs[i] \in [1 .. b -> D]
    OBVIOUS
  <2> QED
    BY <2>1
<1>2. FlattenSeq(seqs) = f[n]
  BY <1>1 DEF FlattenSeq
<1>3. \E h : Equation(h)
  <2> DEFINE V == Seq(D)
             m == n - 1
             base == seqs[1]
             step == [k \in 1 .. m |-> [v \in V |-> v \o seqs[k + 1]]]
  <2>1. m \in Nat /\ base \in V /\ step \in [1 .. m -> [V -> V]]
    <3>1. \A k \in 1 .. m : k + 1 \in 1 .. n
      OBVIOUS
    <3>2. \A k \in 1 .. m, v \in V : v \o seqs[k + 1] \in V
      BY <1>1, <3>1
    <3> QED
      BY <1>1, <3>2
  <2>2. PICK R \in [0 .. m -> V] : Steps(R, m, base, step)
    <3> HIDE DEF V, m, base, step
    <3> QED
      BY <2>1, StepsExist
  <2> DEFINE h == [i \in 1 .. n |-> R[i - 1]]
  <2>3. ASSUME NEW i \in 1 .. n PROVE h[i] = IF i = 1 THEN seqs[i] ELSE h[i - 1] \o seqs[i]
    <3>1. CASE i = 1
      BY <2>2, <3>1 DEF Steps
    <3>2. CASE i # 1
      <4>1. i - 1 \in 1 .. m /\ i - 1 \in 1 .. n /\ (i - 1) - 1 \in 0 .. m
        BY <3>2
      <4>2. R[i - 1] = step[i - 1][R[(i - 1) - 1]] /\ R[(i - 1) - 1] \in V
        <5> HIDE DEF step, V
        <5> QED
          BY <2>2, <4>1 DEF Steps
      <4>3. step[i - 1][R[(i - 1) - 1]] = R[(i - 1) - 1] \o seqs[(i - 1) + 1]
        BY <4>1, <4>2
      <4> QED
        BY <3>2, <4>1, <4>2, <4>3
    <3> QED
      BY <3>1, <3>2
  <2>4. Equation(h)
    <3>1. h = [i \in 1 .. n |-> h[i]]
      OBVIOUS
    <3> HIDE DEF h
    <3> QED
      BY <1>1, <2>3, <3>1
  <2> QED
    BY <2>4
<1>4. Equation(f)
  <2> HIDE DEF Equation
  <2> QED
    BY <1>3
<1> HIDE DEF f
<1>5. \A i \in 1 .. n : f[i] = IF i = 1 THEN seqs[i] ELSE f[i - 1] \o seqs[i]
  BY <1>1, <1>4
<1> DEFINE Good(k) == /\ f[k] \in [1 .. k * b -> D]
                      /\ \A i \in 1 .. k, j \in 1 .. b : f[k][(i - 1) * b + j] = seqs[i][j]
           Next1(k) == k + 1 <= n => Good(k + 1)
           T == {k \in Nat : Next1(k)}
<1>6. 0 \in T
  <2>1. f[1] = seqs[1] /\ 1 \in 1 .. n
    BY <1>5
  <2>2. 1 * b = b /\ \A i \in 1 .. 1, j \in 1 .. b : i = 1 /\ (i - 1) * b + j = j
    OBVIOUS
  <2>3. seqs[1] \in [1 .. b -> D]
    BY <2>1
  <2>4. Good(1)
    BY <2>1, <2>2, <2>3
  <2> HIDE DEF Good
  <2> QED
    BY <2>4
<1>7. ASSUME NEW k \in T PROVE k + 1 \in T
  <2>1. SUFFICES ASSUME (k + 1) + 1 <= n PROVE Good((k + 1) + 1)
    <3> HIDE DEF Good
    <3> QED
      OBVIOUS
  <2> DEFINE p == k + 1
             q == p + 1
             left == f[p]
             right == seqs[q]
             room == p * b
  <2>2. p \in 1 .. n /\ q \in 1 .. n /\ q # 1 /\ q - 1 = p /\ p \in Nat
    BY <2>1
  <2>3. Good(p)
    <3> HIDE DEF Good
    <3> QED
      BY <2>1
  <2>4. f[q] = left \o right
    BY <1>5, <2>2
  <2>5. room \in Nat /\ q * b = room + b
    BY <2>2, Products
  <2>6. left \in [1 .. room -> D] /\ right \in [1 .. b -> D]
    BY <2>2, <2>3
  <2>7. left \in Seq(D) /\ right \in Seq(D) /\ Len(left) = room /\ Len(right) = b
    <3> HIDE DEF left, right, room
    <3> QED
      BY <2>5, <2>6, Positions
  <2>8. f[q] \in [1 .. q * b -> D]
    <3> HIDE DEF left, right, room
    <3>1. left \o right \in Seq(D) /\ Len(left \o right) = room + b
      BY <2>7, Joined
    <3>2. room + b \in Nat
      BY <2>5
    <3>3. left \o right \in [1 .. room + b -> D]
      BY <3>1, <3>2, Positions
    <3> QED
      BY <2>4, <2>5, <3>3
  <2>9. ASSUME NEW i \in 1 .. q, NEW j \in 1 .. b PROVE f[q][(i - 1) * b + j] = seqs[i][j]
    <3>1. CASE i = q
      <4>1. (i - 1) * b + j = room + j
        BY <2>2, <3>1
      <4>2. (left \o right)[room + j] = right[j]
        <5> HIDE DEF left, right, room
        <5> QED
          BY <2>7, Joined
      <4> QED
        BY <2>4, <3>1, <4>1, <4>2
    <3>2. CASE i # q
      <4>1. i \in 1 .. p
        BY <2>2, <3>2
      <4>2. (i - 1) * b + j \in 1 .. room
        BY <2>2, <4>1, PlaceInRow
      <4>3. left[(i - 1) * b + j] = seqs[i][j]
        BY <2>3, <4>1
      <4> DEFINE x == (i - 1) * b + j
      <4>4. (left \o right)[x] = left[x]
        <5>1. x \in 1 .. room
          BY <4>2
        <5> HIDE DEF left, right, room, x
        <5> QED
          BY <2>5, <2>7, <5>1
      <4> QED
        BY <2>4, <4>3, <4>4
    <3> QED
      BY <3>1, <3>2
  <2> HIDE DEF p
  <2> QED
    BY <2>8, <2>9 DEF p
<1>8. T = Nat
  <2> HIDE DEF T
  <2>1. T \in SUBSET Nat
    BY DEF T
  <2> QED
    BY <1>6, <1>7, <2>1, Upward
<1>9. Good(n)
  <2>1. (n - 1) + 1 = n /\ n - 1 \in Nat
    OBVIOUS
  <2>2. Next1(n - 1)
    <3> HIDE DEF Next1
    <3> QED
      BY <1>8, <2>1
  <2> HIDE DEF Good
  <2>3. Good((n - 1) + 1)
    BY <2>1, <2>2
  <2> QED
    BY <2>1, <2>3
<1> DEFINE F == FlattenSeq(seqs)
<1>10. F \in [1 .. n * b -> D] /\ \A i \in 1 .. n, j \in 1 .. b : F[(i - 1) * b + j] = seqs[i][j]
  BY <1>2, <1>9
<1> HIDE DEF F
<1>11. ASSUME NEW i \in 1 .. n PROVE SubSeq(F, (i - 1) * b + 1, (i - 1) * b + b) = seqs[i]
  <2> DEFINE from == (i - 1) * b
             all == n * b
  <2>1. from \in Nat /\ all \in Nat /\ from + b <= all
    <3>1. b \in 1 .. b
      OBVIOUS
    <3>2. n \in Nat /\ n * b \in Nat
      BY Products
    <3> QED
      BY <3>1, <3>2, PlaceInRow
  <2>2. F \in [1 .. all -> D] /\ \A j \in 1 .. b : F[from + j] = seqs[i][j]
    BY <1>10
  <2> HIDE DEF from, all
  <2>3. F \in Seq(D) /\ Len(F) = all
    BY <2>1, <2>2, Positions
  <2>4. SubSeq(F, from + 1, from + b) = [j \in 1 .. b |-> F[from + j]]
    <3>1. SubSeq(F, from + 1, from + b) = [j \in 1 .. (from + b) - (from + 1) + 1 |-> F[(from + 1) + j - 1]]
      BY <2>1, <2>3
    <3>2. (from + b) - (from + 1) + 1 = b /\ \A j \in 1 .. b : (from + 1) + j - 1 = from + j
      BY <2>1
    <3> QED
      BY <3>1, <3>2
  <2>5. SubSeq(F, from + 1, from + b) = seqs[i]
    <3>1. seqs[i] = [j \in 1 .. b |-> seqs[i][j]]
      OBVIOUS
    <3> QED
      BY <2>2, <2>4, <3>1
  <2> QED
    BY <2>5 DEF from
<1> QED
  BY <1>10, <1>11 DEF F, InPlace

\* A product divided by a factor is the other one.
LEMMA Divided ==
  ASSUME NEW b \in Nat \ {0}, NEW n \in Nat \ {0} PROVE (b * n) \div n = b /\ (b * n) % n = 0
<1> DEFINE m == b * n
           d == m \div n
           r == m % n
<1>1. m \in Nat
  BY Products
<1>2. d \in Nat /\ r \in 0 .. n - 1 /\ m = n * d + r
  <2> HIDE DEF m
  <2> QED
    BY <1>1
<1> HIDE DEF d, r
<1>3. n * d + r = n * b
  BY <1>2
<1>4. CASE d < b
  <2>1. n * (d + 1) <= n * b
    <3>1. d + 1 \in Nat /\ d + 1 <= b /\ b \in Nat /\ n \in Nat
      BY <1>2, <1>4
    <3> QED
      BY <3>1, Products
  <2>2. n * (d + 1) = n * d + n /\ n * d \in Nat
    BY <1>2, Products
  <2> QED
    BY <1>2, <1>3, <2>1, <2>2
<1>5. CASE d > b
  <2>1. n * (b + 1) <= n * d
    <3>1. b + 1 \in Nat /\ b + 1 <= d /\ n \in Nat
      BY <1>2, <1>5
    <3> QED
      BY <1>2, <3>1, Products
  <2>2. n * (b + 1) = n * b + n /\ n * b \in Nat
    BY Products
  <2> QED
    BY <1>2, <1>3, <2>1, <2>2
<1>6. CASE d = b
  <2>1. n * b \in Nat
    BY Products
  <2>2. r = 0
    BY <1>2, <1>3, <1>6, <2>1
  <2> QED
    BY <1>6, <2>2 DEF d, r
<1> QED
  BY <1>2, <1>4, <1>5, <1>6

\* With n members in the leading dimension there are n times as many elements,
\* and as many as before in what follows it.
LEMMA Widened ==
  ASSUME NEW shape \in Seq(Nat \ {0}), shape # << >>, shape[1] = 1, NEW n \in Nat \ {0}, NEW Q, Counts(Q, shape)
  PROVE  LET wide == [shape EXCEPT ![1] = n]
             W == [Q EXCEPT ![0] = n * Q[0]]
         IN  /\ wide \in Seq(Nat \ {0}) /\ Counts(W, wide) /\ W[0] = n * Q[0]
             /\ wide # << >> /\ wide[1] = n /\ [wide EXCEPT ![1] = 1] = shape
             /\ Q[0] \in Nat \ {0}
<1> DEFINE wide == [shape EXCEPT ![1] = n]
           W == [Q EXCEPT ![0] = n * Q[0]]
           m == Len(shape)
<1>1. /\ m \in Nat /\ m >= 1 /\ Q \in [0 .. m -> Nat] /\ Q[m] = 1
      /\ \A i \in 1 .. m : shape[i] \in Nat \ {0} /\ Q[i - 1] = shape[i] * Q[i]
      /\ shape \in [1 .. m -> Nat \ {0}]
  BY DEF Counts
<1>2. Q[0] \in Nat \ {0}
  <2>1. 0 \in 0 .. m
    BY <1>1
  <2>2. Q[0] \in Nat /\ Q[0] \in 1 .. Q[0]
    BY <1>1, <2>1, CountBounds
  <2> QED
    BY <2>2
<1>3. n * Q[0] \in Nat
  BY <1>2, Products
<1> HIDE DEF m
<1>4. wide \in [1 .. m -> Nat \ {0}] /\ wide[1] = n /\ \A i \in 1 .. m : i # 1 => wide[i] = shape[i]
  BY <1>1
<1>5. wide \in Seq(Nat \ {0}) /\ Len(wide) = m
  BY <1>1, <1>4, Positions
<1>6. W \in [0 .. m -> Nat] /\ W[0] = n * Q[0] /\ \A i \in 1 .. m : W[i] = Q[i]
  BY <1>1, <1>3
<1>7. [wide EXCEPT ![1] = 1] = shape
  <2>1. DOMAIN [wide EXCEPT ![1] = 1] = 1 .. m /\ \A i \in 1 .. m : [wide EXCEPT ![1] = 1][i] = shape[i]
    BY <1>1, <1>4
  <2> QED
    BY <1>1, <2>1
<1> HIDE DEF wide, W
<1>8. ASSUME NEW i \in 1 .. m PROVE W[i - 1] = wide[i] * W[i]
  <2>1. CASE i = 1
    <3>1. Q[0] = shape[1] * Q[1] /\ 1 \in 1 .. m /\ Q[1] \in Nat
      BY <1>1, <2>1
    <3>2. Q[0] = Q[1]
      BY <1>1, <3>1
    <3>3. W[1] = Q[1] /\ wide[1] = n /\ W[0] = n * Q[0]
      BY <1>4, <1>6, <3>1
    <3>4. W[i - 1] = W[0] /\ W[i] = W[1] /\ wide[i] = wide[1]
      BY <2>1
    <3> QED
      BY <3>2, <3>3, <3>4
  <2>2. CASE i # 1
    <3>1. i - 1 \in 1 .. m /\ W[i - 1] = Q[i - 1] /\ W[i] = Q[i]
      <4>1. i - 1 \in 1 .. m
        BY <1>1, <2>2
      <4> QED
        BY <1>6, <4>1
    <3> QED
      BY <1>1, <1>4, <2>2, <3>1
  <2> QED
    BY <2>1, <2>2
<1>9. Counts(W, wide)
  <2>1. W[m] = 1
    BY <1>1, <1>6
  <2> QED
    BY <1>5, <1>6, <1>8, <2>1 DEF Counts
<1>10. wide # << >>
  BY <1>1, <1>5
<1> QED
  BY <1>2, <1>4, <1>5, <1>6, <1>7, <1>9, <1>10 DEF wide, W

\* Members that are alike are concatenated without a gap, and each slice of the
\* batch has the bytes of its member and its shape.
THEOREM BatchIsSound == ASSUME NEW o \in BatchInputs PROVE BatchSound(o)
<1> DEFINE n == o.size
           z == DataTypeSize[o.type]
<1>1. /\ n \in Nat \ {0} /\ o.bytes \in Nat /\ o.type \in DataTypes /\ o.shape \in Seq(Int) /\ o.shape # << >>
      /\ o.shape[1] = 1
  BY DEF BatchInputs
<1>2. SUFFICES ASSUME NEW t \in CreateTensor(o.bytes, 0, o.type, o.shape, "Nchw", << >>), t.bytes * n <= SizeMax
               PROVE  LET members == [i \in 1 .. n |-> [name \in o.names |->
                                        [tensor |-> t, data |-> [k \in 1 .. t.bytes |-> <<i, name, k>>]]]]
                      IN  \E batch \in Concat(members) : \E samples \in Split(batch, n) :
                              \A i \in 1 .. n, name \in o.names :
                                  /\ samples[i][name].data = members[i][name].data
                                  /\ samples[i][name].tensor.shape = o.shape
  BY DEF BatchSound
<1>3. o.shape \in Seq(Nat \ {0})
  <2>1. IsConcrete(o.shape)
    BY <1>2 DEF CreateTensor, ValidateMetadata
  <2>2. \A i \in 1 .. Len(o.shape) : o.shape[i] \in Nat \ {0}
    BY <1>1, <2>1 DEF IsConcrete
  <2> QED
    BY <1>1, <2>2
<1>4. PICK Q : Counts(Q, o.shape)
  <2>1. o.shape \in Seq(Nat)
    BY <1>3
  <2> QED
    BY <2>1, CountsExist
<1> DEFINE b == z * Q[0]
           wide == [o.shape EXCEPT ![1] = n]
           W == [Q EXCEPT ![0] = n * Q[0]]
<1>5. /\ wide \in Seq(Nat \ {0}) /\ Counts(W, wide) /\ W[0] = n * Q[0] /\ wide # << >> /\ wide[1] = n
      /\ [wide EXCEPT ![1] = 1] = o.shape /\ Q[0] \in Nat \ {0}
  BY <1>1, <1>3, <1>4, Widened
<1>6. b \in Nat \ {0} /\ b * n \in Nat /\ z * W[0] = b * n
  <2>1. z \in Nat \ {0}
    BY <1>1, ElementBytes
  <2> HIDE DEF z, n, W
  <2> DEFINE q == Q[0]
  <2>5. q \in Nat \ {0}
    BY <1>5
  <2> HIDE DEF q
  <2>6. 1 \in Nat /\ 1 <= z /\ z \in Nat
    BY <2>1
  <2>7. 1 * q <= z * q /\ z * q \in Nat /\ 1 * q = q
    BY <2>5, <2>6, Products
  <2>2. b \in Nat /\ b # 0
    BY <2>5, <2>7 DEF q
  <2>3. b * n \in Nat
    <3>1. n \in Nat
      BY <1>1
    <3> HIDE DEF b
    <3> QED
      BY <2>2, <3>1, Product
  <2>4. z * (n * Q[0]) = b * n
    BY <1>1, <1>5, <2>1
  <2> QED
    BY <1>5, <2>2, <2>3, <2>4
<1>7. /\ t = TensorOf(o.bytes, 0, o.type, o.shape, "Nchw", Q)
      /\ b <= SizeMax
  <2>1. 0 \in Nat
    OBVIOUS
  <2>2. CreateTensor(o.bytes, 0, o.type, o.shape, "Nchw", << >>)
           = IF b <= SizeMax /\ 0 + b <= o.bytes THEN {TensorOf(o.bytes, 0, o.type, o.shape, "Nchw", Q)} ELSE {}
    BY <1>1, <1>3, <1>4, <2>1, TensorExact
  <2> HIDE DEF b
  <2> QED
    BY <1>2, <2>2
<1>8. t.bytes = b /\ t.shape = o.shape /\ t.type = o.type /\ t.layout = "Nchw"
  BY <1>7 DEF TensorOf
<1> HIDE DEF b, wide, W, n
<1>9. b * n \in Sizes /\ Wrap(b * n) = b * n
  <2>1. b * n \in Sizes
    BY <1>2, <1>6, <1>8, SizeMaxAssumption DEF Sizes
  <2> QED
    BY <2>1, Fits
<1> DEFINE whole == TensorOf(b * n, 0, o.type, wide, "Nchw", W)
           data(i, name) == [k \in 1 .. b |-> <<i, name, k>>]
           members == [i \in 1 .. n |-> [name \in o.names |-> [tensor |-> t, data |-> data(i, name)]]]
           column(name) == [i \in 1 .. n |-> data(i, name)]
           batch == [name \in o.names |-> [tensor |-> whole, data |-> FlattenSeq(column(name))]]
<1>10. CreateTensor(b * n, 0, o.type, wide, "Nchw", << >>) = {whole}
  <2>1. 0 \in Nat /\ b * n <= SizeMax /\ 0 + b * n <= b * n
    BY <1>6, <1>9, SizeMaxAssumption DEF Sizes
  <2> QED
    BY <1>1, <1>5, <1>6, <2>1, TensorExact
<1>11. whole.bytes = b * n /\ whole.shape = wide /\ whole.type = o.type /\ whole.offset = 0 /\ whole.capacity = b * n
  BY <1>6 DEF TensorOf
<1> HIDE DEF whole
<1>12. /\ DOMAIN members = 1 .. n /\ Len(members) = n /\ members # << >> /\ 1 \in 1 .. n
       /\ \A i \in 1 .. n : DOMAIN members[i] = o.names
       /\ \A i \in 1 .. n, name \in o.names : members[i][name].tensor = t /\ members[i][name].data = data(i, name)
  <2> DEFINE D == {members[i] : i \in 1 .. n}
  <2>1. DOMAIN members = 1 .. n /\ members \in [1 .. n -> D]
    OBVIOUS
  <2>2. members \in Seq(D) /\ Len(members) = n /\ n \in Nat \ {0} /\ 1 \in 1 .. n
    <3> HIDE DEF members, D
    <3> QED
      BY <1>1, <2>1, Positions
  <2>3. members # << >>
    <3> HIDE DEF members
    <3> QED
      BY <2>2
  <2>4. \A i \in 1 .. n : members[i] = [name \in o.names |-> [tensor |-> t, data |-> data(i, name)]]
    OBVIOUS
  <2>5. \A i \in 1 .. n, name \in o.names : members[i][name] = [tensor |-> t, data |-> data(i, name)]
    <3> HIDE DEF members
    <3> QED
      BY <2>4
  <2> HIDE DEF members, data
  <2>6. \A i \in 1 .. n : DOMAIN members[i] = o.names
    BY <2>4
  <2>7. \A i \in 1 .. n, name \in o.names : members[i][name].tensor = t /\ members[i][name].data = data(i, name)
    <3> TAKE i \in 1 .. n, name \in o.names
    <3> DEFINE d == data(i, name)
    <3>1. members[i][name] = [tensor |-> t, data |-> d]
      BY <2>5
    <3> HIDE DEF d
    <3>2. members[i][name].tensor = t /\ members[i][name].data = d
      BY <3>1
    <3> QED
      BY <3>2 DEF d
  <2> QED
    BY <2>1, <2>2, <2>3, <2>6, <2>7
<1> HIDE DEF members
<1> DEFINE first == members[1]
           Batch(name) == {[tensor |-> c, data |-> FlattenSeq([i \in DOMAIN members |-> members[i][name].data])] :
                              c \in CreateTensor(Wrap(first[name].tensor.bytes * Len(members)), 0, first[name].tensor.type,
                                                 [first[name].tensor.shape EXCEPT ![1] = Len(members)],
                                                 first[name].tensor.layout, << >>)}
           Fitting(name) == /\ first[name].tensor.shape # << >> /\ first[name].tensor.shape[1] = 1
                            /\ \A i \in DOMAIN members :
                                  name \in DOMAIN members[i]
                                  /\ members[i][name].tensor.bytes = first[name].tensor.bytes
                            /\ Batch(name) # {}
<1>13. Concat(members) = Only(members # << >> /\ \A name \in DOMAIN first : Fitting(name),
                              [name \in DOMAIN first |-> CHOOSE c \in Batch(name) : TRUE])
  BY DEF Concat
<1>14. ASSUME NEW name \in o.names
       PROVE  Batch(name) = {[tensor |-> whole, data |-> FlattenSeq(column(name))]} /\ Fitting(name)
  <2>1. first[name].tensor = t
    BY <1>12
  <2>2. [i \in DOMAIN members |-> members[i][name].data] = column(name)
    BY <1>12
  <2>3. [t.shape EXCEPT ![1] = n] = wide
    BY <1>8 DEF wide
  <2>4. Batch(name) = {[tensor |-> c, data |-> FlattenSeq(column(name))] : c \in {whole}}
    <3>1. CreateTensor(Wrap(first[name].tensor.bytes * Len(members)), 0, first[name].tensor.type,
                       [first[name].tensor.shape EXCEPT ![1] = Len(members)], first[name].tensor.layout, << >>)
             = {whole}
      BY <1>8, <1>9, <1>10, <1>12, <2>1, <2>3
    <3> HIDE DEF first, column
    <3> QED
      BY <2>2, <3>1
  <2>5. Batch(name) = {[tensor |-> whole, data |-> FlattenSeq(column(name))]}
    BY <2>4
  <2> HIDE DEF Batch
  <2>6. Fitting(name)
    <3>1. first[name].tensor.shape # << >> /\ first[name].tensor.shape[1] = 1
      BY <1>1, <1>8, <2>1
    <3>2. \A i \in DOMAIN members : name \in DOMAIN members[i] /\ members[i][name].tensor.bytes = first[name].tensor.bytes
      BY <1>12, <2>1
    <3> HIDE DEF first
    <3> QED
      BY <2>5, <3>1, <3>2
  <2> QED
    BY <2>5, <2>6
<1> HIDE DEF Batch, Fitting
<1>15. Concat(members) = {batch}
  <2>1. DOMAIN first = o.names
    BY <1>12
  <2>2. [name \in DOMAIN first |-> CHOOSE c \in Batch(name) : TRUE] = batch
    BY <1>14, <2>1
  <2>3. members # << >> /\ \A name \in DOMAIN first : Fitting(name)
    BY <1>12, <1>14, <2>1
  <2> QED
    BY <1>13, <2>2, <2>3 DEF Only
<1> DEFINE from(i) == (i - 1) * b
           part(i) == TensorOf(b * n, from(i), o.type, o.shape, "Any", Q)
<1>16. (b * n) \div n = b /\ (b * n) % n = 0
  BY <1>1, <1>6, Divided
<1>17. ASSUME NEW i \in 1 .. n
       PROVE  from(i) \in Nat /\ from(i) + b <= b * n /\ from(i) \in Sizes
  <2>1. n \in Nat /\ b \in 1 .. b
    BY <1>1, <1>6
  <2>2. from(i) \in Nat /\ from(i) + b <= n * b
    BY <1>6, <2>1, PlaceInRow
  <2>3. n * b = b * n
    BY <1>6, <2>1
  <2> HIDE DEF from
  <2> QED
    BY <1>6, <1>9, <2>2, <2>3, SizeMaxAssumption DEF Sizes
<1>18. ASSUME NEW i \in 1 .. n, NEW name \in o.names
       PROVE  View(batch[name], n, i) = {part(i)}
  <2>1. batch[name].tensor = whole
    OBVIOUS
  <2>2. View(batch[name], n, i) = Subview(whole, Wrap((i - 1) * (whole.bytes \div n)), [whole.shape EXCEPT ![1] = 1])
    BY <2>1 DEF View
  <2>3. Wrap((i - 1) * (whole.bytes \div n)) = from(i) /\ Wrap(0 + from(i)) = from(i)
    <3>1. (i - 1) * (whole.bytes \div n) = from(i)
      BY <1>11, <1>16
    <3>2. Wrap(from(i)) = from(i)
      BY <1>17, Fits
    <3>3. 0 + from(i) = from(i)
      BY <1>17
    <3> HIDE DEF from
    <3> QED
      BY <3>1, <3>2, <3>3
  <2> HIDE DEF from
  <2>4. View(batch[name], n, i) = Subview(whole, from(i), o.shape)
    BY <1>5, <1>11, <2>2, <2>3
  <2>5. CreateTensor(b * n, from(i), o.type, o.shape, "Any", << >>) = {part(i)}
    <3>1. b <= SizeMax /\ from(i) + b <= b * n /\ from(i) \in Nat
      BY <1>7, <1>17
    <3>2. CreateTensor(b * n, from(i), o.type, o.shape, "Any", << >>)
             = IF b <= SizeMax /\ from(i) + b <= b * n THEN {part(i)} ELSE {}
      <4> DEFINE room == b * n
                 place == from(i)
      <4>1. room \in Nat /\ place \in Nat
        BY <1>6, <1>17
      <4> HIDE DEF room, place
      <4>2. CreateTensor(room, place, o.type, o.shape, "Any", << >>)
               = IF b <= SizeMax /\ place + b <= room
                 THEN {TensorOf(room, place, o.type, o.shape, "Any", Q)} ELSE {}
        BY <1>1, <1>3, <1>4, <4>1, TensorExact DEF b
      <4> QED
        BY <4>2 DEF room, place
    <3> QED
      BY <3>1, <3>2
  <2>6. part(i).bytes = b
    BY DEF TensorOf, b
  <2>7. Subview(whole, from(i), o.shape)
          = IF from(i) > b * n THEN {}
            ELSE {c \in CreateTensor(b * n, Wrap(0 + from(i)), o.type, o.shape, "Any", << >>) : c.bytes <= b * n - from(i)}
    BY <1>11 DEF Subview
  <2>8. ~(from(i) > b * n) /\ b <= b * n - from(i)
    BY <1>6, <1>17
  <2> HIDE DEF part
  <2> QED
    BY <2>3, <2>4, <2>5, <2>6, <2>7, <2>8
<1>19. ASSUME NEW i \in 1 .. n, NEW name \in o.names
       PROVE  SubSeq(batch[name].data, part(i).offset + 1, part(i).offset + part(i).bytes) = data(i, name)
  <2>1. batch[name].data = FlattenSeq(column(name)) /\ part(i).offset = from(i) /\ part(i).bytes = b
    BY DEF TensorOf, b
  <2> DEFINE D == {<<k, name, j>> : k \in 1 .. n, j \in 1 .. b}
             seqs == column(name)
  <2>2. seqs \in [1 .. n -> [1 .. b -> D]] /\ seqs[i] = data(i, name)
    OBVIOUS
  <2>3. SubSeq(FlattenSeq(seqs), from(i) + 1, from(i) + b) = seqs[i]
    <3> HIDE DEF seqs, D
    <3>1. InPlace(FlattenSeq(seqs), seqs, n, b)
      BY <1>1, <1>6, <2>2, FlattenExact
    <3> QED
      BY <3>1 DEF InPlace
  <2> HIDE DEF column, data, part, from
  <2> QED
    BY <2>1, <2>2, <2>3
<1> HIDE DEF part, from, column, data
<1> DEFINE Sliced(c) == c.tensor.shape # << >> /\ c.tensor.shape[1] = n /\ c.tensor.bytes % n = 0
           Piece(c, p) == [tensor |-> p, data |-> SubSeq(c.data, p.offset + 1, p.offset + p.bytes)]
           pieces == [i \in 1 .. n |-> [name \in o.names |-> [tensor |-> part(i), data |-> data(i, name)]]]
<1>20. Split(batch, n) = {pieces}
  <2>1. Split(batch, n)
          = Only(\A name \in DOMAIN batch : Sliced(batch[name]) /\ \A i \in 1 .. n : View(batch[name], n, i) # {},
                 [i \in 1 .. n |-> [name \in DOMAIN batch |->
                     Piece(batch[name], CHOOSE p \in View(batch[name], n, i) : TRUE)]])
    BY DEF Split
  <2>2. DOMAIN batch = o.names /\ \A name \in o.names : batch[name].tensor = whole
    OBVIOUS
  <2>3. ASSUME NEW name \in o.names PROVE Sliced(batch[name])
    BY <1>5, <1>11, <1>16, <2>2
  <2> HIDE DEF batch, Sliced
  <2>4. ASSUME NEW i \in 1 .. n, NEW name \in o.names
        PROVE  Piece(batch[name], CHOOSE p \in View(batch[name], n, i) : TRUE) = [tensor |-> part(i), data |-> data(i, name)]
    <3>1. (CHOOSE p \in View(batch[name], n, i) : TRUE) = part(i)
      BY <1>18 DEF batch
    <3> QED
      BY <1>19, <3>1 DEF batch
  <2> HIDE DEF Piece
  <2>5. [i \in 1 .. n |-> [name \in DOMAIN batch |-> Piece(batch[name], CHOOSE p \in View(batch[name], n, i) : TRUE)]] = pieces
    BY <2>2, <2>4
  <2>6. \A name \in DOMAIN batch : Sliced(batch[name]) /\ \A i \in 1 .. n : View(batch[name], n, i) # {}
    BY <1>18, <2>2, <2>3 DEF batch
  <2> QED
    BY <2>1, <2>5, <2>6 DEF Only
<1>21. \A i \in 1 .. n, name \in o.names : pieces[i][name].data = data(i, name) /\ pieces[i][name].tensor.shape = o.shape
  BY DEF part, TensorOf
<1> HIDE DEF pieces, batch
<1>22. members = [i \in 1 .. n |-> [name \in o.names |-> [tensor |-> t, data |-> [k \in 1 .. t.bytes |-> <<i, name, k>>]]]]
  BY <1>8 DEF members, data
<1>23. \A i \in 1 .. n, name \in o.names : pieces[i][name].data = members[i][name].data
  BY <1>12, <1>21
<1> QED
  <2>1. batch \in Concat(members) /\ pieces \in Split(batch, n)
    BY <1>15, <1>20
  <2>2. \E c \in Concat(members) : \E samples \in Split(c, n) :
           \A i \in 1 .. n, name \in o.names :
               samples[i][name].data = members[i][name].data /\ samples[i][name].tensor.shape = o.shape
    BY <1>21, <1>23, <2>1
  <2> HIDE DEF members
  <2> QED
    BY <1>22, <2>2, ZenonT(30) DEF n

-----------------------------------------------------------------------------
(* Chains *)

Kinds == {"resize", "crop", "tensor", "normalize"}

\* The size that a crop is built for.
SizeOf(node) == [width |-> Narrow(node.width), height |-> Narrow(node.height)]

BuildAll(node, contexts) == UNION {Build(node, c) : c \in contexts}

\* The contexts that a build goes through.
BuildPath(R, nodes, n) ==
    /\ R[0] = {[size |-> {}, tensor |-> {}]}
    /\ \A k \in 1 .. n : R[k] = BuildAll(nodes[k], R[k - 1])

\* A chain is built one node after the other.
LEMMA BuildSteps ==
  ASSUME NEW n \in Nat, NEW nodes, DOMAIN nodes = 1 .. n, \A k \in 1 .. n : nodes[k].kind \in Kinds,
         NEW R, BuildPath(R, nodes, n)
  PROVE  BuildChain(nodes) = R[n]
<1> DEFINE base == {[size |-> {}, tensor |-> {}]}
           S == {SizeOf(nodes[k]) : k \in 1 .. n}
           N == {nodes[k].name : k \in 1 .. n}
           C == [size : SUBSET S, tensor : SUBSET N]
           V == SUBSET C
           Next1(v, k) == UNION {Build(nodes[k], c) : c \in v}
           step == [k \in 1 .. n |-> [v \in V |-> Next1(v, k)]]
           Equation(g) == g = [s \in SUBSET DOMAIN nodes |->
                                 IF s = {} THEN {[size |-> {}, tensor |-> {}]}
                                 ELSE LET x == Max(s) IN UNION {Build(nodes[x], c) : c \in g[s \ {x}]}]
           g == CHOOSE g : Equation(g)
<1>1. BuildChain(nodes) = g[1 .. n]
  BY DEF BuildChain, FoldLeft, MapThenFoldSet
<1>2. base \in V
  OBVIOUS
<1>3. ASSUME NEW k \in 1 .. n, NEW c \in C PROVE Build(nodes[k], c) \subseteq C
  <2> DEFINE node == nodes[k]
             size == SizeOf(node)
  <2>1. size \in S /\ node.name \in N
    OBVIOUS
  <2>2. c = [size |-> c.size, tensor |-> c.tensor] /\ c.size \subseteq S /\ c.tensor \subseteq N
    <3> HIDE DEF S, N
    <3> QED
      OBVIOUS
  <2> HIDE DEF S, N, size
  <2>3. /\ [c EXCEPT !.size = {}] \in C /\ [c EXCEPT !.size = {size}] \in C
        /\ [c EXCEPT !.tensor = {node.name}] \in C
    BY <2>1, <2>2
  <2> HIDE DEF C
  <2>4. CASE node.kind = "resize"
    BY <2>3, <2>4 DEF Build, Only
  <2>5. CASE node.kind = "crop"
    BY <2>3, <2>5 DEF Build, Only, size, SizeOf
  <2>6. CASE node.kind = "tensor"
    BY <2>3, <2>6 DEF Build, Only
  <2>7. CASE node.kind = "normalize"
    BY <2>7 DEF Build, Only
  <2> QED
    BY <2>4, <2>5, <2>6, <2>7 DEF Kinds
<1> HIDE DEF C
<1>4. step \in [1 .. n -> [V -> V]]
  <2>1. ASSUME NEW k \in 1 .. n, NEW v \in V PROVE Next1(v, k) \in V
    BY <1>3
  <2> HIDE DEF Next1, V
  <2> QED
    BY <2>1
<1> HIDE DEF base, V
<1>5. \E h : Equation(h)
  <2>1. PICK h \in [SUBSET (1 .. n) -> V] : Folds(h, n, base, step)
    <3> HIDE DEF step
    <3> QED
      BY <1>2, <1>4, FoldExists
  <2> HIDE DEF Next1
  <2>2. ASSUME NEW s \in SUBSET (1 .. n), s # {} PROVE h[s] = Next1(h[s \ {Max(s)}], Max(s))
    <3>1. Max(s) \in 1 .. n
      BY <2>2, LargestExists
    <3>2. s \ {Max(s)} \in SUBSET (1 .. n)
      OBVIOUS
    <3>3. h[s] = step[Max(s)][h[s \ {Max(s)}]]
      BY <2>1, <2>2 DEF Folds
    <3>4. h[s \ {Max(s)}] \in V
      BY <3>2
    <3> QED
      BY <3>1, <3>3, <3>4
  <2>3. h[{}] = base
    BY <2>1 DEF Folds
  <2>4. h = [s \in SUBSET DOMAIN nodes |-> IF s = {} THEN base ELSE Next1(h[s \ {Max(s)}], Max(s))]
    <3> HIDE DEF step
    <3> QED
      BY <2>2, <2>3
  <2>5. Equation(h)
    BY <2>4 DEF Next1, base
  <2> QED
    BY <2>5
<1>6. g = [s \in SUBSET (1 .. n) |-> IF s = {} THEN base ELSE BuildAll(nodes[Max(s)], g[s \ {Max(s)}])]
  <2>1. Equation(g)
    <3> HIDE DEF Equation
    <3> QED
      BY <1>5
  <2> QED
    BY <2>1 DEF BuildAll, base
<1> HIDE DEF g
<1>7. g[{}] = R[0]
  <2>1. {} \in SUBSET (1 .. n)
    OBVIOUS
  <2> QED
    BY <1>6, <2>1 DEF BuildPath, base
<1>8. ASSUME NEW k \in 1 .. n, g[1 .. k - 1] = R[k - 1] PROVE g[1 .. k] = R[k]
  <2>1. k \in Nat \ {0} /\ 1 .. k \in SUBSET (1 .. n)
    OBVIOUS
  <2>2. Max(1 .. k) = k /\ (1 .. k) \ {k} = 1 .. k - 1 /\ 1 .. k # {}
    BY <2>1, Firsts
  <2>3. g[1 .. k] = UNION {Build(nodes[k], c) : c \in g[1 .. k - 1]}
    <3>1. g[1 .. k] = BuildAll(nodes[Max(1 .. k)], g[(1 .. k) \ {Max(1 .. k)}])
      BY <1>6, <2>1, <2>2
    <3> QED
      BY <2>2, <3>1 DEF BuildAll
  <2> QED
    BY <1>8, <2>3 DEF BuildPath, BuildAll
<1>9. g[1 .. n] = R[n]
  <2>1. \A k \in 1 .. n : g[1 .. k - 1] = R[k - 1] => g[1 .. k] = R[k]
    BY <1>8
  <2> QED
    BY <1>7, <2>1, FoldValue
<1> QED
  BY <1>1, <1>9

\* A remainder of a natural is one.
LEMMA Wraps == ASSUME NEW m \in Nat PROVE Wrap(m) \in Nat
  BY SizeMaxAssumption DEF Wrap

\* Frame::create() makes frame records.
LEMMA CreatedFrames ==
  ASSUME NEW capacity \in Nat, NEW width \in Nat, NEW height \in Nat, NEW format \in Formats,
         NEW given \in Nat, NEW offset \in Nat
  PROVE  CreateFrame(capacity, width, height, format, given, offset) \subseteq FrameRecords
<1> DEFINE p == PixelFormatSize[format]
           row == Wrap(width * p)
           stride == IF given = 0 THEN row ELSE given
           bytes == Wrap((height - 1) * stride + row)
<1>1. row \in Nat /\ stride \in Nat
  <2>1. p \in Nat
    BY PixelBytes
  <2>2. width * p \in Nat
    BY <2>1, Products
  <2> QED
    BY <2>2, Wraps
<1>2. height # 0 => bytes \in Nat
  <2> HIDE DEF row, stride
  <2>1. SUFFICES ASSUME height # 0 PROVE bytes \in Nat
    OBVIOUS
  <2>2. (height - 1) * stride \in Nat
    <3>1. height - 1 \in Nat
      BY <2>1
    <3> QED
      BY <1>1, <3>1, Products
  <2>3. (height - 1) * stride + row \in Nat
    BY <1>1, <2>2
  <2> QED
    BY <2>3, Wraps
<1>3. ASSUME NEW f \in CreateFrame(capacity, width, height, format, given, offset)
      PROVE  /\ width # 0 /\ height # 0
             /\ f = [offset |-> offset, bytes |-> bytes, width |-> width, height |-> height,
                     stride |-> stride, format |-> format, capacity |-> capacity]
  BY DEF CreateFrame, Only
<1> HIDE DEF row, stride, bytes
<1> QED
  BY <1>1, <1>2, <1>3 DEF FrameRecords

\* The parameters of nodes are what the loaders give them.
NodeTyped(node) ==
    /\ node.kind \in Kinds
    /\ node.kind = "resize" => node.short \in Nat
    /\ node.kind = "crop" => node.width \in Nat /\ node.height \in Nat

\* The nodes of pictures make frame records of frame records.
LEMMA ResizedFrames ==
  ASSUME NEW node, node.short \in Nat, NEW f \in FrameRecords PROVE Resize(node, f) \subseteq FrameRecords
<1> DEFINE short == IF f.width <= f.height THEN f.width ELSE f.height
           Side(n) == IF n = short THEN node.short ELSE Wrap(node.short * n) \div short
           width == Side(f.width)
           height == Side(f.height)
           row == Wrap(width * PixelFormatSize[f.format])
<1>1. f.width \in Nat \ {0} /\ f.height \in Nat \ {0} /\ f.format \in Formats
  BY DEF FrameRecords
<1>2. short \in Nat \ {0}
  BY <1>1
<1>3. ASSUME NEW n \in Nat PROVE Side(n) \in Nat
  <2> HIDE DEF short
  <2>1. node.short * n \in Nat
    BY Products
  <2>2. Wrap(node.short * n) \in Nat
    BY <2>1, Wraps
  <2>3. Wrap(node.short * n) \div short \in Nat
    BY <1>2, <2>2, Quotient
  <2> QED
    BY <2>3
<1>4. width \in Nat /\ height \in Nat
  <2> HIDE DEF Side
  <2> QED
    BY <1>1, <1>3
<1>5. Resize(node, f) \subseteq CreateFrame(Wrap(height * row), width, height, f.format, row, 0)
  BY DEF Resize
<1> HIDE DEF width, height
<1>6. row \in Nat
  <2>1. PixelFormatSize[f.format] \in Nat
    BY <1>1, PixelBytes
  <2>2. width * PixelFormatSize[f.format] \in Nat
    BY <1>4, <2>1, Products
  <2> QED
    BY <2>2, Wraps
<1> HIDE DEF row
<1>7. Wrap(height * row) \in Nat
  BY <1>4, <1>6, Products, Wraps
<1> QED
  BY <1>1, <1>4, <1>5, <1>6, <1>7, CreatedFrames

\* The crop of a frame record is one, when there is a crop.
LEMMA CroppedFrames ==
  ASSUME NEW node, node.width \in Nat, node.height \in Nat, NEW f \in FrameRecords
  PROVE  CenterCrop(node, f) \subseteq FrameRecords
<1> DEFINE from == f.offset + Top(f, node) * f.stride + Left(f, node) * PixelFormatSize[f.format]
<1>1. /\ f.width \in Nat /\ f.height \in Nat /\ f.format \in Formats /\ f.stride \in Nat
      /\ f.offset \in Nat /\ f.capacity \in Nat
  BY DEF FrameRecords
<1>2. CASE node.width > f.width \/ node.height > f.height
  BY <1>2 DEF CenterCrop
<1>3. CASE node.width <= f.width /\ node.height <= f.height
  <2>1. Left(f, node) \in Nat /\ Top(f, node) \in Nat
    <3>1. f.width - node.width \in Nat /\ f.height - node.height \in Nat
      BY <1>1, <1>3
    <3> QED
      BY <3>1, Halves DEF Left, Top
  <2>2. Top(f, node) * f.stride \in Nat
    BY <1>1, <2>1, Product
  <2>3. PixelFormatSize[f.format] \in Nat
    BY <1>1, PixelBytes
  <2>4. Left(f, node) * PixelFormatSize[f.format] \in Nat
    BY <2>1, <2>3, Product
  <2>5. from \in Nat
    BY <1>1, <2>2, <2>4
  <2>6. CenterCrop(node, f) \subseteq CreateFrame(f.capacity, node.width, node.height, f.format, f.stride, Wrap(from))
    BY DEF CenterCrop
  <2>7. Wrap(from) \in Nat
    <3> HIDE DEF from
    <3> QED
      BY <2>5, Wraps
  <2> HIDE DEF from
  <2> QED
    BY <1>1, <2>6, <2>7, CreatedFrames
<1> QED
  BY <1>1, <1>2, <1>3

\* The size that the build of a node saw.
SizeSeen(nodes, k) == UNION {c.size : c \in BuildChain(SubSeq(nodes, 1, k - 1))}

ProcessAll(nodes, k, states) == UNION {Process(nodes[k], SizeSeen(nodes, k), s) : s \in states}

\* The states that a run goes through.
RunPath(R, nodes, n, frame) ==
    /\ R[0] = {[frame |-> frame, tensor |-> << >>]}
    /\ \A k \in 1 .. n : R[k] = ProcessAll(nodes, k, R[k - 1])

\* A chain is run one node after the other.
LEMMA RunSteps ==
  ASSUME NEW n \in Nat, NEW nodes, DOMAIN nodes = 1 .. n, \A k \in 1 .. n : NodeTyped(nodes[k]),
         NEW frame \in FrameRecords, NEW R, RunPath(R, nodes, n, frame)
  PROVE  Run(nodes, frame) = R[n]
<1> DEFINE base == {[frame |-> frame, tensor |-> << >>]}
           Made == {ToTensor(nodes[k], s, f) : k \in 1 .. n, s \in UNION {SizeSeen(nodes, i) : i \in 1 .. n}, f \in FrameRecords}
           T == {<< >>} \cup UNION Made
           C == [frame : FrameRecords, tensor : T]
           V == SUBSET C
           step == [k \in 1 .. n |-> [v \in V |-> ProcessAll(nodes, k, v)]]
           indices == [i \in DOMAIN nodes |-> i]
           Equation(g) == g = [s \in SUBSET DOMAIN indices |->
                                 IF s = {} THEN {[frame |-> frame, tensor |-> << >>]}
                                 ELSE LET x == Max(s)
                                      IN  UNION {Process(nodes[indices[x]],
                                                         UNION {c.size : c \in BuildChain(SubSeq(nodes, 1, indices[x] - 1))}, t) :
                                                    t \in g[s \ {x}]}]
           g == CHOOSE g : Equation(g)
<1>1. Run(nodes, frame) = g[1 .. n]
  BY DEF Run, FoldLeft, MapThenFoldSet
<1>2. base \in V
  OBVIOUS
<1>3. ASSUME NEW k \in 1 .. n, NEW c \in C PROVE Process(nodes[k], SizeSeen(nodes, k), c) \subseteq C
  <2> DEFINE node == nodes[k]
             size == SizeSeen(nodes, k)
  <2>1. c = [frame |-> c.frame, tensor |-> c.tensor] /\ c.frame \in FrameRecords /\ c.tensor \in T
    <3> HIDE DEF T
    <3> QED
      OBVIOUS
  <2>2. ASSUME NEW s \in size, NEW t \in ToTensor(node, s, c.frame) PROVE t \in T
    BY <2>1
  <2>3. NodeTyped(node)
    OBVIOUS
  <2> HIDE DEF T, node, size
  <2>4. CASE node.kind = "resize"
    <3>1. Resize(node, c.frame) \subseteq FrameRecords
      BY <2>1, <2>3, <2>4, ResizedFrames DEF NodeTyped
    <3>2. Process(node, size, c) = {[c EXCEPT !.frame = f] : f \in Resize(node, c.frame)}
      BY <2>4 DEF Process
    <3> QED
      BY <2>1, <3>1, <3>2 DEF node, size
  <2>5. CASE node.kind = "crop"
    <3>1. CenterCrop(node, c.frame) \subseteq FrameRecords
      BY <2>1, <2>3, <2>5, CroppedFrames DEF NodeTyped
    <3>2. Process(node, size, c) = {[c EXCEPT !.frame = f] : f \in CenterCrop(node, c.frame)}
      BY <2>5 DEF Process
    <3> QED
      BY <2>1, <3>1, <3>2 DEF node, size
  <2>6. CASE node.kind = "tensor"
    <3>1. Process(node, size, c)
            = {[c EXCEPT !.tensor = t] : t \in UNION {ToTensor(node, s, c.frame) : s \in size}}
      BY <2>6 DEF Process
    <3> QED
      BY <2>1, <2>2, <3>1 DEF node, size
  <2>7. CASE node.kind = "normalize"
    <3>1. Process(node, size, c) \subseteq {c}
      BY <2>7 DEF Process, Only
    <3> QED
      BY <3>1 DEF node, size
  <2> QED
    BY <2>3, <2>4, <2>5, <2>6, <2>7 DEF NodeTyped, Kinds
<1> HIDE DEF C
<1>4. step \in [1 .. n -> [V -> V]]
  <2>1. ASSUME NEW k \in 1 .. n, NEW v \in V PROVE ProcessAll(nodes, k, v) \in V
    BY <1>3 DEF ProcessAll
  <2> HIDE DEF V
  <2> QED
    BY <2>1
<1> HIDE DEF base, V
<1>5. DOMAIN indices = 1 .. n /\ \A k \in 1 .. n : indices[k] = k
  OBVIOUS
<1> HIDE DEF indices
<1>6. \E h : Equation(h)
  <2>1. PICK h \in [SUBSET (1 .. n) -> V] : Folds(h, n, base, step)
    <3> HIDE DEF step
    <3> QED
      BY <1>2, <1>4, FoldExists
  <2>2. ASSUME NEW s \in SUBSET (1 .. n), s # {} PROVE h[s] = ProcessAll(nodes, indices[Max(s)], h[s \ {Max(s)}])
    <3>1. Max(s) \in 1 .. n
      BY <2>2, LargestExists
    <3>2. s \ {Max(s)} \in SUBSET (1 .. n)
      OBVIOUS
    <3>3. h[s] = step[Max(s)][h[s \ {Max(s)}]]
      BY <2>1, <2>2 DEF Folds
    <3>4. h[s \ {Max(s)}] \in V
      BY <3>2
    <3> QED
      BY <1>5, <3>1, <3>3, <3>4
  <2>3. h[{}] = base
    BY <2>1 DEF Folds
  <2>4. h = [s \in SUBSET DOMAIN indices |-> IF s = {} THEN base ELSE ProcessAll(nodes, indices[Max(s)], h[s \ {Max(s)}])]
    <3> HIDE DEF step
    <3> QED
      BY <1>5, <2>2, <2>3
  <2>5. Equation(h)
    BY <2>4 DEF ProcessAll, SizeSeen, base
  <2> QED
    BY <2>5
<1>7. g = [s \in SUBSET (1 .. n) |-> IF s = {} THEN base ELSE ProcessAll(nodes, indices[Max(s)], g[s \ {Max(s)}])]
  <2>1. Equation(g)
    <3> HIDE DEF Equation
    <3> QED
      BY <1>6
  <2> QED
    BY <1>5, <2>1 DEF ProcessAll, SizeSeen, base
<1> HIDE DEF g
<1>8. g[{}] = R[0]
  <2>1. {} \in SUBSET (1 .. n)
    OBVIOUS
  <2> QED
    BY <1>7, <2>1 DEF RunPath, base
<1>9. ASSUME NEW k \in 1 .. n, g[1 .. k - 1] = R[k - 1] PROVE g[1 .. k] = R[k]
  <2>1. k \in Nat \ {0} /\ 1 .. k \in SUBSET (1 .. n)
    OBVIOUS
  <2>2. Max(1 .. k) = k /\ (1 .. k) \ {k} = 1 .. k - 1 /\ 1 .. k # {}
    BY <2>1, Firsts
  <2>3. g[1 .. k] = ProcessAll(nodes, k, g[1 .. k - 1])
    <3>1. g[1 .. k] = ProcessAll(nodes, indices[Max(1 .. k)], g[(1 .. k) \ {Max(1 .. k)}])
      BY <1>7, <2>1, <2>2
    <3> QED
      BY <1>5, <2>2, <3>1
  <2> QED
    BY <1>9, <2>3 DEF RunPath
<1>10. g[1 .. n] = R[n]
  <2>1. \A k \in 1 .. n : g[1 .. k - 1] = R[k - 1] => g[1 .. k] = R[k]
    BY <1>9
  <2> QED
    BY <1>8, <2>1, FoldValue
<1> QED
  BY <1>1, <1>10

\* What a chain that builds has been given.
Accepted(nodes) ==
    LET r == nodes[1]
        c == nodes[2]
        t == nodes[3]
        m == nodes[4]
        size == SizeOf(c)
    IN  /\ r.short > 0 /\ c.width > 0 /\ c.height > 0 /\ t.channels \in {1, 3} /\ t.buffers \in 1 .. VectorMax
        /\ size.width > 0 /\ size.height > 0 /\ size.width <= SizeMax \div size.height
        /\ size.width * size.height <= SizeMax \div (t.channels * 4)
        /\ m.finite /\ m.means > 0 /\ m.means = m.deviations

ChainNodes == ResizeNodes \X CropNodes \X TensorNodes \X NormalizeNodes

\* The members of a chain, and of its first two nodes.
LEMMA ChainOf ==
  ASSUME NEW nodes \in ChainNodes
  PROVE  /\ DOMAIN nodes = 1 .. 4 /\ Len(nodes) = 4
         /\ nodes[1] \in ResizeNodes /\ nodes[2] \in CropNodes /\ nodes[3] \in TensorNodes /\ nodes[4] \in NormalizeNodes
         /\ nodes = <<nodes[1], nodes[2], nodes[3], nodes[4]>>
         /\ DOMAIN SubSeq(nodes, 1, 2) = 1 .. 2 /\ SubSeq(nodes, 1, 2)[1] = nodes[1] /\ SubSeq(nodes, 1, 2)[2] = nodes[2]
  BY DEF ChainNodes

\* The first two nodes are built for the size of the crop.
LEMMA BuildOfTwo ==
  ASSUME NEW pair, DOMAIN pair = 1 .. 2, pair[1] \in ResizeNodes, pair[2] \in CropNodes
  PROVE  BuildChain(pair)
            = IF /\ pair[1].short > 0 /\ pair[1].long >= pair[1].short /\ pair[1].buffers > 0
                 /\ pair[2].width > 0 /\ pair[2].height > 0
              THEN {[size |-> {SizeOf(pair[2])}, tensor |-> {}]} ELSE {}
<1> DEFINE r == pair[1]
           c == pair[2]
           c0 == [size |-> {}, tensor |-> {}]
           A == r.short > 0 /\ r.long >= r.short /\ r.buffers > 0
           B == c.width > 0 /\ c.height > 0
           R1 == IF A THEN {c0} ELSE {}
           R2 == IF A /\ B THEN {[size |-> {SizeOf(c)}, tensor |-> {}]} ELSE {}
           R == [k \in 0 .. 2 |-> IF k = 0 THEN {c0} ELSE IF k = 1 THEN R1 ELSE R2]
<1>1. r.kind = "resize" /\ c.kind = "crop"
  BY DEF ResizeNodes, CropNodes
<1>2. BuildAll(r, {c0}) = R1
  <2>1. Build(r, c0) = R1
    <3>1. [c0 EXCEPT !.size = {}] = c0
      OBVIOUS
    <3> HIDE DEF c0, r
    <3> QED
      BY <1>1, <3>1 DEF Build, Only
  <2> HIDE DEF c0, R1, r
  <2> QED
    BY <2>1 DEF BuildAll
<1>3. BuildAll(c, R1) = R2
  <2>1. Build(c, c0) = IF B THEN {[size |-> {SizeOf(c)}, tensor |-> {}]} ELSE {}
    <3>1. [c0 EXCEPT !.size = {SizeOf(c)}] = [size |-> {SizeOf(c)}, tensor |-> {}]
      OBVIOUS
    <3> HIDE DEF c0, c
    <3> QED
      BY <1>1, <3>1 DEF Build, Only, SizeOf
  <2> HIDE DEF A, B, c, c0
  <2> QED
    BY <2>1 DEF BuildAll
<1>4. R[0] = {c0} /\ R[1] = R1 /\ R[2] = R2
  OBVIOUS
<1> HIDE DEF R, R1, R2
<1>5. BuildPath(R, pair, 2)
  <2>1. ASSUME NEW k \in 1 .. 2 PROVE R[k] = BuildAll(pair[k], R[k - 1])
    <3>1. CASE k = 1
      BY <1>2, <1>4, <3>1
    <3>2. CASE k = 2
      <4>1. R[k - 1] = R1
        BY <1>4, <3>2
      <4> QED
        BY <1>3, <1>4, <3>2, <4>1
    <3> QED
      BY <3>1, <3>2
  <2> QED
    BY <1>4, <2>1 DEF BuildPath
<1>6. \A k \in 1 .. 2 : pair[k].kind \in Kinds
  <2>1. ASSUME NEW k \in 1 .. 2 PROVE pair[k].kind \in Kinds
    <3>1. k = 1 \/ k = 2
      OBVIOUS
    <3> QED
      BY <1>1, <3>1 DEF Kinds
  <2> QED
    BY <2>1
<1>7. BuildChain(pair) = R[2]
  <2>1. 2 \in Nat
    OBVIOUS
  <2> QED
    BY <1>5, <1>6, <2>1, BuildSteps
<1> QED
  BY <1>4, <1>7 DEF R2

\* A chain that builds was accepted.
LEMMA BuildAccepts ==
  ASSUME NEW nodes, DOMAIN nodes = 1 .. 4, nodes[1].kind = "resize", nodes[2].kind = "crop",
         nodes[3].kind = "tensor", nodes[4].kind = "normalize", BuildChain(nodes) # {}
  PROVE  Accepted(nodes) /\ nodes[1].long >= nodes[1].short /\ nodes[1].buffers > 0
<1> DEFINE r == nodes[1]
           c == nodes[2]
           t == nodes[3]
           m == nodes[4]
           R0 == {[size |-> {}, tensor |-> {}]}
           R1 == BuildAll(r, R0)
           R2 == BuildAll(c, R1)
           R3 == BuildAll(t, R2)
           R4 == BuildAll(m, R3)
           R == [k \in 0 .. 4 |-> CASE k = 0 -> R0 [] k = 1 -> R1 [] k = 2 -> R2 [] k = 3 -> R3 [] k = 4 -> R4]
<1>1. r.kind = "resize" /\ c.kind = "crop" /\ t.kind = "tensor" /\ m.kind = "normalize"
  OBVIOUS
<1>2. R[0] = R0 /\ R[1] = R1 /\ R[2] = R2 /\ R[3] = R3 /\ R[4] = R4
  <2> HIDE DEF R0, R1, R2, R3, R4
  <2> QED
    OBVIOUS
<1> HIDE DEF R
<1>3. BuildPath(R, nodes, 4)
  <2>1. ASSUME NEW k \in 1 .. 4 PROVE R[k] = BuildAll(nodes[k], R[k - 1])
    <3>1. k = 1 \/ k = 2 \/ k = 3 \/ k = 4
      OBVIOUS
    <3> HIDE DEF R0
    <3> QED
      BY <1>2, <3>1
  <2> QED
    BY <1>2, <2>1 DEF BuildPath
<1>4. BuildChain(nodes) = R4
  <2>1. \A k \in 1 .. 4 : nodes[k].kind \in Kinds
    <3>1. ASSUME NEW k \in 1 .. 4 PROVE nodes[k].kind \in Kinds
      <4>1. k = 1 \/ k = 2 \/ k = 3 \/ k = 4
        OBVIOUS
      <4> QED
        BY <1>1, <4>1 DEF Kinds
    <3> QED
      BY <3>1
  <2>2. DOMAIN nodes = 1 .. 4 /\ 4 \in Nat
    OBVIOUS
  <2> HIDE DEF R4
  <2> QED
    BY <1>2, <1>3, <2>1, <2>2, BuildSteps
<1> HIDE DEF R0, R1, R2, R3, R4
<1>5. PICK c3 \in R3 : Build(m, c3) # {}
  BY <1>4 DEF R4, BuildAll
<1>6. m.finite /\ m.means > 0 /\ m.means = m.deviations
  BY <1>1, <1>5 DEF Build, Only
<1>7. PICK c2 \in R2 : Build(t, c2) # {}
  BY <1>5 DEF R3, BuildAll
<1>8. PICK c1 \in R1 : c2 \in Build(c, c1)
  BY <1>7 DEF R2, BuildAll
<1>9. R1 # {}
  BY <1>8
<1>10. r.short > 0 /\ r.long >= r.short /\ r.buffers > 0
  BY <1>1, <1>9 DEF R1, BuildAll, Build, Only
<1>11. c.width > 0 /\ c.height > 0 /\ c2 = [c1 EXCEPT !.size = {SizeOf(c)}]
  BY <1>1, <1>8 DEF Build, Only, SizeOf
<1>12. c1 = [size |-> {}, tensor |-> {}]
  BY <1>1, <1>8 DEF R0, R1, BuildAll, Build, Only
<1>13. c2.size = {SizeOf(c)}
  BY <1>11, <1>12
<1>14. PICK s \in c2.size : /\ t.name # "" /\ t.buffers \in 1 .. VectorMax /\ t.channels \in {1, 3}
                            /\ s.width > 0 /\ s.height > 0 /\ s.width <= SizeMax \div s.height
                            /\ s.width * s.height <= SizeMax \div (t.channels * DataTypeSize["Float32"])
  BY <1>1, <1>7 DEF Build, Only, CreatePool
<1>15. s = SizeOf(c)
  BY <1>13
<1>16. DataTypeSize["Float32"] = 4
  BY DEF DataTypeSize
<1>17. Accepted(nodes)
  BY <1>6, <1>10, <1>11, <1>14, <1>15, <1>16 DEF Accepted
<1> QED
  BY <1>10, <1>17

\* Its third node is built for the crop's size.
LEMMA BuildOfFour ==
  ASSUME NEW nodes \in ChainNodes, BuildChain(nodes) # {}
  PROVE  Accepted(nodes) /\ BuildChain(SubSeq(nodes, 1, 2)) = {[size |-> {SizeOf(nodes[2])}, tensor |-> {}]}
<1>1. /\ DOMAIN nodes = 1 .. 4 /\ nodes[1].kind = "resize" /\ nodes[2].kind = "crop"
      /\ nodes[3].kind = "tensor" /\ nodes[4].kind = "normalize"
  BY ChainOf DEF ResizeNodes, CropNodes, TensorNodes, NormalizeNodes
<1>2. Accepted(nodes) /\ nodes[1].long >= nodes[1].short /\ nodes[1].buffers > 0
  BY <1>1, BuildAccepts
<1>3. BuildChain(SubSeq(nodes, 1, 2)) = {[size |-> {SizeOf(nodes[2])}, tensor |-> {}]}
  <2> DEFINE pair == SubSeq(nodes, 1, 2)
  <2>1. /\ DOMAIN pair = 1 .. 2 /\ pair[1] = nodes[1] /\ pair[2] = nodes[2]
        /\ nodes[1] \in ResizeNodes /\ nodes[2] \in CropNodes
    BY ChainOf
  <2>2. nodes[1].short > 0 /\ nodes[2].width > 0 /\ nodes[2].height > 0
    BY <1>2 DEF Accepted
  <2> HIDE DEF pair
  <2>3. BuildChain(pair) = {[size |-> {SizeOf(nodes[2])}, tensor |-> {}]}
    BY <1>2, <2>1, <2>2, BuildOfTwo
  <2> QED
    BY <2>3 DEF pair
<1> QED
  BY <1>2, <1>3

\* A frame that was described ends in its buffer.
LEMMA DescribedWithin ==
  ASSUME NEW capacity \in Nat, NEW width \in Nat, NEW height \in Nat, NEW format \in Formats, NEW stride \in Nat,
         NEW offset \in Nat, Described(capacity, width, height, format, stride, offset)
  PROVE  Within(FrameOf(capacity, width, height, format, stride, offset))
<1> DEFINE f == FrameOf(capacity, width, height, format, stride, offset)
           p == PixelFormatSize[format]
<1>1. p \in Nat
  BY PixelBytes
<1>2. f.offset = offset /\ f.bytes = (height - 1) * stride + width * p /\ f.capacity = capacity
      /\ f.height = height /\ f.width = width /\ f.stride = stride /\ PixelFormatSize[f.format] = p
  BY DEF FrameOf
<1>3. width > 0 /\ height > 0 /\ offset + (height - 1) * stride + width * p <= capacity
  BY DEF Described
<1> HIDE DEF f, p
<1>4. (height - 1) * stride \in Nat /\ width * p \in Nat
  BY <1>1, <1>3, Products
<1>5. Within(f)
  BY <1>2, <1>3, <1>4 DEF Within
<1> QED
  BY <1>5 DEF f

\* A frame as it was described, in a buffer of a size.
Whole(f, offset) ==
    /\ f.capacity \in Sizes /\ f.width \in Nat /\ f.height \in Nat /\ f.format \in Formats /\ f.stride \in Nat
    /\ Described(f.capacity, f.width, f.height, f.format, f.stride, offset)
    /\ f = FrameOf(f.capacity, f.width, f.height, f.format, f.stride, offset)

\* A frame is resized to one that ends in its buffer, or is refused.
LEMMA ResizeExact ==
  ASSUME NEW node, node.short \in Nat, NEW f0 \in FrameRecords, NEW f \in Resize(node, f0)
  PROVE  /\ Resize(node, f0) = {f} /\ Whole(f, 0) /\ Within(f) /\ f.format = f0.format /\ f.format \in CvFormats
         /\ f.width <= IntMax /\ f.height <= IntMax
<1> DEFINE short == IF f0.width <= f0.height THEN f0.width ELSE f0.height
           Side(n) == IF n = short THEN node.short ELSE Wrap(node.short * n) \div short
           width == Side(f0.width)
           height == Side(f0.height)
           row == Wrap(width * PixelFormatSize[f0.format])
           capacity == Wrap(height * row)
           stride == StrideOf(width, f0.format, row)
<1>1. f0.width \in Nat \ {0} /\ f0.height \in Nat \ {0} /\ f0.format \in Formats
  BY DEF FrameRecords
<1>2. short \in Nat \ {0}
  BY <1>1
<1>3. ASSUME NEW n \in Nat PROVE Side(n) \in Nat
  <2> HIDE DEF short
  <2>1. node.short * n \in Nat
    BY Products
  <2>2. Wrap(node.short * n) \in Nat
    BY <2>1, Wraps
  <2>3. Wrap(node.short * n) \div short \in Nat
    BY <1>2, <2>2, Quotient
  <2> QED
    BY <2>3
<1>4. width \in Nat /\ height \in Nat
  <2> HIDE DEF Side
  <2> QED
    BY <1>1, <1>3
<1>5. /\ f0.format \in CvFormats /\ Resize(node, f0) = CreateFrame(capacity, width, height, f0.format, row, 0)
      /\ width <= IntMax /\ height <= IntMax
  BY DEF Resize
<1> HIDE DEF width, height
<1>6. PixelFormatSize[f0.format] \in Nat /\ width * PixelFormatSize[f0.format] \in Nat
  <2>1. PixelFormatSize[f0.format] \in Nat
    BY <1>1, PixelBytes
  <2> QED
    BY <1>4, <2>1, Products
<1>7. row \in Nat /\ stride \in Nat
  <2>1. row \in Nat
    BY <1>6, Wraps
  <2> HIDE DEF row
  <2> QED
    BY <1>6, <2>1 DEF StrideOf
<1> HIDE DEF row
<1>8. capacity \in Sizes
  <2>1. height * row \in Nat
    BY <1>4, <1>7, Products
  <2> QED
    BY <2>1, SizeMaxAssumption DEF Wrap, Sizes
<1> DEFINE made == FrameOf(capacity, width, height, f0.format, stride, 0)
<1> HIDE DEF capacity
<1>9. /\ Described(capacity, width, height, f0.format, stride, 0)
      /\ Resize(node, f0) = {made} /\ f = made
  <2>1. 0 \in Nat
    OBVIOUS
  <2>2. CreateFrame(capacity, width, height, f0.format, row, 0)
           = IF Described(capacity, width, height, f0.format, stride, 0) THEN {made} ELSE {}
    BY <1>1, <1>4, <1>7, <1>8, <2>1, FrameExact
  <2> HIDE DEF made, stride
  <2> QED
    BY <1>5, <2>2
<1>10. f.capacity = capacity /\ f.width = width /\ f.height = height /\ f.format = f0.format /\ f.stride = stride
  <2> HIDE DEF stride
  <2> QED
    BY <1>9 DEF FrameOf
<1> HIDE DEF stride, made
<1>11. Whole(f, 0)
  BY <1>1, <1>4, <1>7, <1>8, <1>9, <1>10 DEF Whole, made
<1>12. Within(f)
  <2>1. capacity \in Nat /\ 0 \in Nat
    BY <1>8, SizeMaxAssumption DEF Sizes
  <2> QED
    BY <1>1, <1>4, <1>7, <1>9, <2>1, DescribedWithin DEF made
<1> QED
  BY <1>5, <1>9, <1>10, <1>11, <1>12

\* A side that is an int is the same as an uint32_t.
LEMMA NarrowInt == ASSUME NEW n \in Nat, n <= IntMax PROVE Narrow(n) = n
  BY LimitsAssumption DEF Narrow

\* A crop that fits gives a frame of the size asked for.
LEMMA CropExact ==
  ASSUME NEW f, Whole(f, 0), f.format \in CvFormats,
         NEW size, size.width \in Nat \ {0}, size.height \in Nat \ {0}, size.width <= f.width, size.height <= f.height
  PROVE  \E c : CenterCrop(size, f) = {c} /\ c.width = size.width /\ c.height = size.height /\ c.format = f.format
<1> DEFINE c == FrameOf(f.capacity, size.width, size.height, f.format, f.stride, CropFrom(f, size))
<1>1. CenterCrop(size, f) = {c}
  <2>1. f = FrameOf(f.capacity, f.width, f.height, f.format, f.stride, 0) /\ 0 \in Nat
        /\ f.capacity \in Sizes /\ f.width \in Nat /\ f.height \in Nat /\ f.format \in Formats /\ f.stride \in Nat
        /\ Described(f.capacity, f.width, f.height, f.format, f.stride, 0)
    BY DEF Whole
  <2> DEFINE g == FrameOf(f.capacity, f.width, f.height, f.format, f.stride, 0)
             d == FrameOf(f.capacity, size.width, size.height, f.format, f.stride, CropFrom(g, size))
             capacity == f.capacity
             width == f.width
             height == f.height
             format == f.format
             stride == f.stride
             offset == 0
  <2>2. CenterCrop(size, g) = {d}
    <3>1. /\ capacity \in Sizes /\ width \in Nat /\ height \in Nat /\ format \in Formats /\ stride \in Nat
          /\ offset \in Nat /\ Described(capacity, width, height, format, stride, offset)
          /\ size.width <= width /\ size.height <= height /\ format \in CvFormats
      BY <2>1
    <3>2. CenterCrop(size, FrameOf(capacity, width, height, format, stride, offset))
             = {FrameOf(capacity, size.width, size.height, format, stride,
                        CropFrom(FrameOf(capacity, width, height, format, stride, offset), size))}
      <4> HIDE DEF capacity, width, height, format, stride, offset
      <4> QED
        BY <3>1, CropInside
    <3> QED
      BY <3>2
  <2>3. g = f
    BY <2>1
  <2> HIDE DEF g
  <2> QED
    BY <2>2, <2>3
<1>2. c.width = size.width /\ c.height = size.height /\ c.format = f.format
  BY DEF FrameOf
<1> QED
  BY <1>1, <1>2

\* A frame of the size and with the channels that a tensor node was built for.
BuiltFor(node, size, f) ==
    /\ node.channels \in {1, 3} /\ size.width \in Nat \ {0} /\ size.height \in Nat \ {0}
    /\ size.width <= SizeMax \div size.height /\ size.width * size.height <= SizeMax \div (node.channels * 4)
    /\ f.width = size.width /\ f.height = size.height /\ f.format \in CvFormats
    /\ node.channels = 1 => f.format = "Gray8"

\* It becomes a tensor, which is normalized.
LEMMA TensorBuilt ==
  ASSUME NEW node, NEW size, NEW f, NEW other, BuiltFor(node, size, f), other.means = node.channels
  PROVE  \E t : ToTensor(node, size, f) = {t} /\ NormalizeAccepts(other, t)
<1> DEFINE n == node.channels
           w == size.width
           h == size.height
           shape == <<1, n, h, w>>
           area == w * h
           capacity == w * h * n * 4
<1>1. n \in Nat \ {0} /\ w \in Nat \ {0} /\ h \in Nat \ {0} /\ SizeMax \in Nat
  BY SizeMaxAssumption DEF BuiltFor
<1>2. shape \in Seq(Nat \ {0}) /\ Len(shape) = 4 /\ shape[1] = 1 /\ shape[2] = n /\ shape[3] = h /\ shape[4] = w
  <2> HIDE DEF n, w, h
  <2>1. 1 \in Nat \ {0}
    OBVIOUS
  <2> QED
    BY <1>1, <2>1
<1>3. ToTensor(node, size, f) = CreateTensor(capacity, 0, "Float32", shape, "Nchw", << >>)
  BY DEF ToTensor, BuiltFor
<1>4. area \in Nat /\ area <= SizeMax \div (n * 4)
  BY <1>1, Products DEF BuiltFor
<1> HIDE DEF n, w, h, shape
<1>5. area * (n * 4) <= SizeMax
  <2>1. n * 4 \in Nat \ {0}
    BY <1>1
  <2> HIDE DEF area
  <2> QED
    BY <1>1, <1>4, <2>1, Quotients
<1>6. capacity = area * (n * 4) /\ capacity \in Nat
  <2>1. capacity = area * n * 4
    OBVIOUS
  <2> HIDE DEF area, capacity
  <2>2. area * n \in Nat /\ area * (n * 4) \in Nat
    BY <1>1, <1>4, Products
  <2>3. area * n * 4 = area * (n * 4)
    BY <1>1, <1>4
  <2> QED
    BY <2>1, <2>2, <2>3
<1>7. PICK Q : Counts(Q, shape)
  <2>1. shape \in Seq(Nat)
    BY <1>2
  <2> QED
    BY <2>1, CountsExist
<1>8. Q[4] = 1 /\ Q[3] = w * Q[4] /\ Q[2] = h * Q[3] /\ Q[1] = n * Q[2] /\ Q[0] = 1 * Q[1]
  <2>1. Q[4] = 1
    BY <1>2, <1>7 DEF Counts
  <2>2. \A i \in 1 .. 4 : Q[i - 1] = shape[i] * Q[i]
    BY <1>2, <1>7 DEF Counts
  <2>3. Q[4 - 1] = shape[4] * Q[4] /\ Q[3 - 1] = shape[3] * Q[3] /\ Q[2 - 1] = shape[2] * Q[2] /\ Q[1 - 1] = shape[1] * Q[1]
    BY <2>2
  <2> QED
    BY <1>2, <2>1, <2>3
<1>9. Q[0] = n * (h * w)
  <2>1. Q[3] = w
    BY <1>1, <1>8
  <2>2. Q[1] = n * (h * w)
    BY <1>8, <2>1
  <2>3. h * w \in Nat
    BY <1>1, Products
  <2>4. n * (h * w) \in Nat
    BY <1>1, <2>3, Products
  <2> QED
    BY <1>8, <2>2, <2>4
<1>10. 4 * Q[0] = capacity
  <2>1. h * w = area
    BY <1>1
  <2> HIDE DEF area, capacity
  <2>2. 4 * (n * area) = area * (n * 4)
    BY <1>1, <1>4
  <2> QED
    BY <1>6, <1>9, <2>1, <2>2
<1> HIDE DEF capacity, area
<1>11. DataTypeSize["Float32"] = 4 /\ "Float32" \in DataTypes /\ 0 \in Nat
  BY DEF DataTypeSize, DataTypes
<1> DEFINE t == TensorOf(capacity, 0, "Float32", shape, "Nchw", Q)
<1>12. ToTensor(node, size, f) = {t}
  <2>1. 4 * Q[0] <= SizeMax /\ 0 + 4 * Q[0] <= capacity
    BY <1>5, <1>6, <1>10
  <2> QED
    BY <1>2, <1>3, <1>6, <1>7, <1>11, <2>1, TensorExact
<1>13. NormalizeAccepts(other, t)
  <2>1. t.type = "Float32" /\ t.layout = "Nchw" /\ t.shape = shape /\ t.strides = Packed("Float32", shape, Q).strides
    BY DEF TensorOf
  <2> HIDE DEF t
  <2>2. ContiguousByteStrides(shape, "Float32") = Packed("Float32", shape, Q).strides
    <3>1. 4 * Q[0] <= SizeMax
      BY <1>5, <1>6, <1>10
    <3> QED
      BY <1>2, <1>7, <1>11, <3>1, ContiguousExact
  <2>3. IsContiguous(t)
    BY <2>1, <2>2 DEF IsContiguous
  <2> QED
    BY <1>2, <2>1, <2>3 DEF NormalizeAccepts, n
<1> QED
  BY <1>12, <1>13

\* A chain that was built yields a tensor for every frame that is large enough
\* and has the channels it was built for.
THEOREM ChainIsSound == ASSUME NEW o \in ChainInputs PROVE ChainSound(o)
<1> DEFINE nodes == o.nodes
           frame == o.frame
           r == nodes[1]
           c == nodes[2]
           t == nodes[3]
           m == nodes[4]
           size == SizeOf(c)
<1>1. nodes \in ChainNodes /\ frame \in FrameRecords
  BY DEF ChainInputs, ChainNodes, FramesMade
<1>2. /\ r.kind = "resize" /\ c.kind = "crop" /\ t.kind = "tensor" /\ m.kind = "normalize"
      /\ r.short \in Nat /\ c.width \in Nat /\ c.height \in Nat /\ DOMAIN nodes = 1 .. 4
  BY <1>1, ChainOf DEF ResizeNodes, CropNodes, TensorNodes, NormalizeNodes
<1> HIDE DEF nodes, frame
<1>3. SUFFICES ASSUME BuildChain(nodes) # {}
               PROVE  /\ \A f \in Resize(r, frame) : Within(f)
                      /\ frame.width <= IntMax /\ frame.height <= IntMax
                            /\ (\E f \in Resize(r, frame) : f.width >= c.width /\ f.height >= c.height)
                            /\ (t.channels = 1 => frame.format = "Gray8") /\ m.means = t.channels
                         => Run(nodes, frame) # {}
  BY DEF ChainSound, nodes, frame
<1>4. ASSUME NEW f \in Resize(r, frame) PROVE Within(f)
  BY <1>1, <1>2, ResizeExact
<1>5. ASSUME NEW f1 \in Resize(r, frame), f1.width >= c.width, f1.height >= c.height,
             t.channels = 1 => frame.format = "Gray8", m.means = t.channels
      PROVE  Run(nodes, frame) # {}
  <2>1. Accepted(nodes) /\ BuildChain(SubSeq(nodes, 1, 2)) = {[size |-> {size}, tensor |-> {}]}
    BY <1>1, <1>3, BuildOfFour
  <2>2. /\ c.width \in Nat \ {0} /\ c.height \in Nat \ {0} /\ t.channels \in {1, 3}
        /\ size.width <= SizeMax \div size.height /\ size.width * size.height <= SizeMax \div (t.channels * 4)
    <3> HIDE DEF size
    <3>1. /\ t.channels \in {1, 3} /\ c.width > 0 /\ c.height > 0
          /\ size.width <= SizeMax \div size.height /\ size.width * size.height <= SizeMax \div (t.channels * 4)
      BY <2>1 DEF Accepted, size
    <3> QED
      BY <1>2, <3>1
  <2>3. /\ Resize(r, frame) = {f1} /\ Whole(f1, 0) /\ f1.format = frame.format /\ f1.format \in CvFormats
        /\ f1.width <= IntMax /\ f1.height <= IntMax
    BY <1>1, <1>2, ResizeExact
  <2>4. PICK f2 : CenterCrop(c, f1) = {f2} /\ f2.width = c.width /\ f2.height = c.height /\ f2.format = f1.format
    <3>1. f1.width \in Nat /\ f1.height \in Nat
      BY <2>3 DEF Whole
    <3>2. c.width <= f1.width /\ c.height <= f1.height
      BY <1>2, <1>5, <3>1
    <3> QED
      BY <2>2, <2>3, <3>2, CropExact
  <2>5. size.width = c.width /\ size.height = c.height
    <3>1. f1.width \in Nat /\ f1.height \in Nat
      BY <2>3 DEF Whole
    <3>2. c.width <= IntMax /\ c.height <= IntMax
      BY <1>2, <1>5, <2>3, <3>1, LimitsAssumption
    <3>3. Narrow(c.width) = c.width /\ Narrow(c.height) = c.height
      BY <1>2, <3>2, NarrowInt
    <3> QED
      BY <3>3 DEF SizeOf
  <2>6. PICK b : ToTensor(t, size, f2) = {b} /\ NormalizeAccepts(m, b)
    <3>1. BuiltFor(t, size, f2)
      <4> HIDE DEF size, c, t
      <4> QED
        BY <1>5, <2>2, <2>3, <2>4, <2>5 DEF BuiltFor
    <3> HIDE DEF size, c, t, m
    <3> QED
      BY <1>5, <3>1, TensorBuilt
  <2>7. SizeSeen(nodes, 3) = {size}
    <3>1. 3 - 1 = 2
      OBVIOUS
    <3>2. SizeSeen(nodes, 3) = UNION {a.size : a \in BuildChain(SubSeq(nodes, 1, 2))}
      BY <3>1 DEF SizeSeen
    <3>3. [size |-> {size}, tensor |-> {}].size = {size}
      OBVIOUS
    <3> HIDE DEF size
    <3> QED
      BY <2>1, <3>2, <3>3
  <2> DEFINE s0 == [frame |-> frame, tensor |-> << >>]
             s1 == [frame |-> f1, tensor |-> << >>]
             s2 == [frame |-> f2, tensor |-> << >>]
             s3 == [frame |-> f2, tensor |-> b]
             R == [k \in 0 .. 4 |-> CASE k = 0 -> {s0} [] k = 1 -> {s1} [] k = 2 -> {s2} [] k = 3 -> {s3} [] k = 4 -> {s3}]
  <2>8. R[0] = {s0} /\ R[1] = {s1} /\ R[2] = {s2} /\ R[3] = {s3} /\ R[4] = {s3}
    <3> HIDE DEF s0, s1, s2, s3
    <3> QED
      OBVIOUS
  <2> HIDE DEF R, r, c, t, m, size
  <2>9. ASSUME NEW seen PROVE Process(r, seen, s0) = {s1}
    <3>1. Process(r, seen, s0) = {[s0 EXCEPT !.frame = f] : f \in Resize(r, frame)}
      BY <1>2 DEF Process
    <3> QED
      BY <2>3, <3>1
  <2>10. ASSUME NEW seen PROVE Process(c, seen, s1) = {s2}
    <3>1. Process(c, seen, s1) = {[s1 EXCEPT !.frame = f] : f \in CenterCrop(c, f1)}
      BY <1>2 DEF Process
    <3> QED
      BY <2>4, <3>1
  <2>11. Process(t, {size}, s2) = {s3}
    <3>1. Process(t, {size}, s2) = {[s2 EXCEPT !.tensor = a] : a \in UNION {ToTensor(t, s, f2) : s \in {size}}}
      BY <1>2 DEF Process
    <3>2. UNION {ToTensor(t, s, f2) : s \in {size}} = {b}
      BY <2>6
    <3> QED
      BY <3>1, <3>2
  <2>12. ASSUME NEW seen PROVE Process(m, seen, s3) = {s3}
    <3>1. s3.tensor = b
      OBVIOUS
    <3> HIDE DEF s3
    <3> QED
      BY <1>2, <2>6, <3>1 DEF Process, Only
  <2> HIDE DEF s0, s1, s2, s3
  <2>13. /\ ProcessAll(nodes, 1, {s0}) = {s1} /\ ProcessAll(nodes, 2, {s1}) = {s2}
         /\ ProcessAll(nodes, 3, {s2}) = {s3} /\ ProcessAll(nodes, 4, {s3}) = {s3}
    <3>1. ProcessAll(nodes, 1, {s0}) = {s1}
      BY <2>9 DEF ProcessAll, r
    <3>2. ProcessAll(nodes, 2, {s1}) = {s2}
      BY <2>10 DEF ProcessAll, c
    <3>3. ProcessAll(nodes, 3, {s2}) = {s3}
      BY <2>7, <2>11 DEF ProcessAll, t
    <3>4. ProcessAll(nodes, 4, {s3}) = {s3}
      BY <2>12 DEF ProcessAll, m
    <3> QED
      BY <3>1, <3>2, <3>3, <3>4
  <2>14. RunPath(R, nodes, 4, frame)
    <3>1. ASSUME NEW k \in 1 .. 4 PROVE R[k] = ProcessAll(nodes, k, R[k - 1])
      <4>1. CASE k = 1
        <5>1. R[k - 1] = {s0}
          BY <2>8, <4>1
        <5> QED
          BY <2>8, <2>13, <4>1, <5>1
      <4>2. CASE k = 2
        <5>1. R[k - 1] = {s1}
          BY <2>8, <4>2
        <5> QED
          BY <2>8, <2>13, <4>2, <5>1
      <4>3. CASE k = 3
        <5>1. R[k - 1] = {s2}
          BY <2>8, <4>3
        <5> QED
          BY <2>8, <2>13, <4>3, <5>1
      <4>4. CASE k = 4
        <5>1. R[k - 1] = {s3}
          BY <2>8, <4>4
        <5> QED
          BY <2>8, <2>13, <4>4, <5>1
      <4> QED
        BY <4>1, <4>2, <4>3, <4>4
    <3> QED
      BY <2>8, <3>1 DEF RunPath, s0
  <2>15. \A k \in 1 .. 4 : NodeTyped(nodes[k])
    <3>1. ASSUME NEW k \in 1 .. 4 PROVE NodeTyped(nodes[k])
      <4>1. k = 1 \/ k = 2 \/ k = 3 \/ k = 4
        OBVIOUS
      <4> QED
        <5>1. CASE k = 1
          BY <1>2, <5>1 DEF NodeTyped, Kinds, r
        <5>2. CASE k = 2
          BY <1>2, <5>2 DEF NodeTyped, Kinds, c
        <5>3. CASE k = 3
          BY <1>2, <5>3 DEF NodeTyped, Kinds, t
        <5>4. CASE k = 4
          BY <1>2, <5>4 DEF NodeTyped, Kinds, m
        <5> QED
          BY <4>1, <5>1, <5>2, <5>3, <5>4
    <3> QED
      BY <3>1
  <2>16. Run(nodes, frame) = R[4]
    <3>1. 4 \in Nat /\ DOMAIN nodes = 1 .. 4 /\ frame \in FrameRecords
      BY <1>1, <1>2
    <3> QED
      BY <2>14, <2>15, <3>1, RunSteps, ZenonT(30)
  <2> QED
    BY <2>8, <2>16
<1> QED
  BY <1>4, <1>5

\* NoByteAstray: whatever the inputs are, and whatever the widths of int,
\* uint32_t and size_t, no byte goes astray and no size that wraps or is
\* narrowed is taken for another one.
THEOREM NoByteAstrayHolds ==
  ASSUME \A s \in Samples : s \in Inputs \/ DocumentTyped(s)
  PROVE  SampleSpec => []NoByteAstray
<1> DEFINE Chosen == sample \in Samples
<1>1. SampleInit => Chosen
  BY DEF SampleInit
<1>2. Chosen /\ [UNCHANGED sample]_sample => Chosen'
  OBVIOUS
<1>3. Chosen => NoByteAstray
  <2>1. SUFFICES ASSUME sample \in Inputs \/ DocumentTyped(sample) PROVE NoByteAstray
    OBVIOUS
  <2>2. CASE sample \in FrameInputs
    <3>1. sample.kind = "frame"
      BY <2>2 DEF FrameInputs
    <3>2. FrameSound(sample)
      BY <2>2, FrameIsSound
    <3> QED
      BY <3>1, <3>2 DEF NoByteAstray
  <2>3. CASE sample \in ChainInputs
    <3>1. sample.kind = "chain"
      BY <2>3 DEF ChainInputs
    <3>2. ChainSound(sample)
      BY <2>3, ChainIsSound
    <3> QED
      BY <3>1, <3>2 DEF NoByteAstray
  <2>4. CASE sample \in BatchInputs
    <3>1. sample.kind = "batch"
      BY <2>4 DEF BatchInputs
    <3>2. BatchSound(sample)
      BY <2>4, BatchIsSound
    <3> QED
      BY <3>1, <3>2 DEF NoByteAstray
  <2>5. CASE DocumentTyped(sample)
    <3>1. sample.kind \notin {"frame", "chain", "batch"}
      BY <2>5 DEF DocumentTyped
    <3> QED
      BY <3>1 DEF NoByteAstray
  <2> QED
    BY <2>1, <2>2, <2>3, <2>4, <2>5 DEF Inputs
<1> QED
  BY <1>1, <1>2, <1>3, PTL DEF SampleSpec

-----------------------------------------------------------------------------
(* Documents and sessions *)

\* What every step of a fold keeps holds of its value.
LEMMA FoldKeeps ==
  ASSUME NEW n \in Nat, NEW g, NEW I, g[{}] \in I[0],
         \A k \in 1 .. n : g[1 .. k - 1] \in I[k - 1] => g[1 .. k] \in I[k]
  PROVE  g[1 .. n] \in I[n]
<1> DEFINE T == {k \in Nat : k <= n => g[1 .. k] \in I[k]}
<1>1. 0 \in T
  <2>1. 1 .. 0 = {}
    OBVIOUS
  <2> QED
    BY <2>1
<1>2. ASSUME NEW k \in T PROVE k + 1 \in T
  <2>1. SUFFICES ASSUME k + 1 <= n PROVE g[1 .. k + 1] \in I[k + 1]
    OBVIOUS
  <2>2. k + 1 \in 1 .. n /\ (k + 1) - 1 = k /\ g[1 .. k] \in I[k]
    BY <2>1
  <2> QED
    BY <2>2
<1>3. T = Nat
  <2> HIDE DEF T
  <2>1. T \in SUBSET Nat
    BY DEF T
  <2> QED
    BY <1>1, <1>2, <2>1, Upward
<1> QED
  BY <1>3

\* A path within a path that is within a third is within that one.
LEMMA PrefixOfPrefix ==
  ASSUME NEW S, NEW a \in Seq(S), NEW b \in Seq(S), NEW c \in Seq(S), IsPrefix(a, b), IsPrefix(b, c)
  PROVE  IsPrefix(a, c)
<1>1. Len(a) \in Nat /\ Len(b) \in Nat /\ Len(c) \in Nat /\ Len(a) <= Len(b) /\ Len(b) <= Len(c)
  BY DEF IsPrefix
<1>2. \A i \in 1 .. Len(a) : SubSeq(a, 1, Len(a))[i] = a[i] /\ SubSeq(b, 1, Len(a))[i] = b[i]
                             /\ SubSeq(c, 1, Len(a))[i] = c[i]
  BY <1>1
<1>3. \A i \in 1 .. Len(b) : SubSeq(b, 1, Len(b))[i] = b[i] /\ SubSeq(c, 1, Len(b))[i] = c[i]
  BY <1>1
<1>4. ASSUME NEW i \in 1 .. Len(a) PROVE SubSeq(a, 1, Len(a))[i] = SubSeq(c, 1, Len(a))[i]
  <2>1. i \in 1 .. Len(b)
    BY <1>1
  <2>2. a[i] = b[i]
    BY <1>2 DEF IsPrefix
  <2>3. b[i] = c[i]
    BY <1>3, <2>1 DEF IsPrefix
  <2> QED
    BY <1>2, <2>2, <2>3
<1>5. SubSeq(a, 1, Len(a)) = SubSeq(c, 1, Len(a))
  <2>1. SubSeq(a, 1, Len(a)) = [i \in 1 .. Len(a) |-> SubSeq(a, 1, Len(a))[i]]
    BY <1>1
  <2>2. SubSeq(c, 1, Len(a)) = [i \in 1 .. Len(a) |-> SubSeq(c, 1, Len(a))[i]]
    BY <1>1
  <2> QED
    BY <1>4, <2>1, <2>2
<1> QED
  BY <1>1, <1>5 DEF IsPrefix

\* The artifact that is selected from a package that was loaded lies in it.
LEMMA SelectedInside ==
  ASSUME NEW package, PackageTyped(package), NEW k \in LoadPackage(package), NEW backend,
         NEW a \in SelectArtifact(k, backend)
  PROVE  IsPrefix(package.root, a.path)
<1>1. k = package /\ IsPrefix(package.root, package.artifactsRoot)
      /\ \A i \in DOMAIN package.artifacts : ArtifactAccepted(package, package.artifacts[i])
  BY DEF LoadPackage, Only
<1>2. a \in Range(package.artifacts)
  BY <1>1 DEF SelectArtifact
<1>3. PICK i \in DOMAIN package.artifacts : a = package.artifacts[i]
  BY <1>2 DEF Range
<1>4. IsPrefix(package.artifactsRoot, a.path)
  BY <1>1, <1>3 DEF ArtifactAccepted
<1>5. package.root \in Seq(STRING) /\ package.artifactsRoot \in Seq(STRING) /\ a.path \in Seq(STRING)
  BY <1>3 DEF PackageTyped
<1> QED
  BY <1>1, <1>4, <1>5, PrefixOfPrefix

\* What was built of a list of sources: one stream each, of a name of its own,
\* and no camera twice.
Streams(built, n) ==
    /\ Len(built) = n
    /\ \A i, j \in 1 .. n : built[i].id = built[j].id => i = j
    /\ \A i, j \in 1 .. n : built[i].device = built[j].device => i = j \/ built[i].device = NoCamera

\* One more source makes one more stream, of another name and another camera.
LEMMA OneMoreStream ==
  ASSUME NEW S, NEW k \in Nat \ {0}, NEW built \in Seq(S), Streams(built, k - 1), NEW stream \in S,
         \A i \in 1 .. k - 1 : built[i].id # stream.id,
         stream.device # NoCamera => \A i \in 1 .. k - 1 : built[i].device # stream.device
  PROVE  Append(built, stream) \in Seq(S) /\ Streams(Append(built, stream), k)
<1> DEFINE more == Append(built, stream)
<1>1. Len(built) = k - 1
  BY DEF Streams
<1>2. more \in Seq(S) /\ Len(more) = k /\ more[k] = stream /\ \A i \in 1 .. k - 1 : more[i] = built[i]
  BY <1>1
<1> HIDE DEF more
<1>3. \A i \in 1 .. k : i = k \/ i \in 1 .. k - 1
  OBVIOUS
<1>4. \A i, j \in 1 .. k : more[i].id = more[j].id => i = j
  BY <1>2, <1>3 DEF Streams
<1>5. \A i, j \in 1 .. k : more[i].device = more[j].device => i = j \/ more[i].device = NoCamera
  BY <1>2, <1>3 DEF Streams
<1> QED
  BY <1>2, <1>4, <1>5 DEF Streams, more

\* The device that one source opens, after others.
DeviceOf(s, built, cameras) ==
    IF s.type = "directory" THEN BuildDirectorySource(s)
    ELSE BuildCameraSource(s, cameras, {built[i].device : i \in DOMAIN built} \ {NoCamera})

\* What one more source makes of what was built.
AddSource(builds, s, cameras) ==
    UNION {{Append(built, [id |-> s.id, device |-> d]) : d \in DeviceOf(s, built, cameras)} :
              built \in {b \in builds : \A i \in DOMAIN b : b[i].id # s.id}}

\* The cameras that a source can open do not depend on the others.
CamerasOf(s, cameras) ==
    {NoCamera} \cup SelectCamera([s.settings EXCEPT !.format = ParsePixelFormat[@]], cameras)

\* A source opens one of its cameras, and none that is open.
LEMMA DeviceIsNew ==
  ASSUME NEW s, NEW built, NEW cameras, NEW d \in DeviceOf(s, built, cameras)
  PROVE  /\ d \in CamerasOf(s, cameras)
         /\ d = NoCamera \/ \A i \in DOMAIN built : built[i].device # d
<1>1. CASE s.type = "directory"
  <2>1. d = NoCamera
    BY <1>1 DEF DeviceOf, BuildDirectorySource, Only
  <2> QED
    BY <2>1 DEF CamerasOf
<1>2. CASE s.type # "directory"
  <2> DEFINE opened == {built[i].device : i \in DOMAIN built} \ {NoCamera}
             o == [s.settings EXCEPT !.format = ParsePixelFormat[@]]
  <2>1. d \in BuildCameraSource(s, cameras, opened)
    BY <1>2 DEF DeviceOf
  <2> HIDE DEF opened
  <2>2. d \in CreateDevice(o, cameras, opened)
    BY <2>1 DEF BuildCameraSource
  <2> HIDE DEF o
  <2>3. d \in SelectCamera(o, cameras) /\ d \notin opened
    BY <2>2 DEF CreateDevice
  <2> QED
    BY <2>3 DEF CamerasOf, opened, o
<1> QED
  BY <1>1, <1>2

\* Sources that are built have one stream each, of a name of its own, and no
\* camera twice.
LEMMA SourcesBuilt ==
  ASSUME NEW sources, NEW n \in Nat, DOMAIN sources = 1 .. n, NEW cameras, NEW built \in BuildSources(sources, cameras)
  PROVE  Streams(built, n)
<1> DEFINE S == [id : {sources[k].id : k \in 1 .. n}, device : UNION {CamerasOf(sources[k], cameras) : k \in 1 .. n}]
           V == SUBSET Seq(S)
           I == [k \in 0 .. n |-> {v \in V : \A b \in v : Streams(b, k)}]
           Next1(v, k) == AddSource(v, sources[k], cameras)
           step == [k \in 1 .. n |-> [v \in V |-> Next1(v, k)]]
           Equation(g) == g = [s \in SUBSET (1 .. n) |->
                                 IF s = {} THEN {<< >>} ELSE Next1(g[s \ {Max(s)}], Max(s))]
           g == CHOOSE g : Equation(g)
<1>1. BuildSources(sources, cameras) = g[1 .. n]
  BY DEF BuildSources, FoldLeft, MapThenFoldSet, AddSource, DeviceOf
<1>2. {<< >>} \in V
  OBVIOUS
<1>3. ASSUME NEW k \in 1 .. n, NEW d, NEW b, d \in DeviceOf(sources[k], b, cameras)
      PROVE  [id |-> sources[k].id, device |-> d] \in S
  <2>1. d \in CamerasOf(sources[k], cameras)
    BY <1>3, DeviceIsNew
  <2> QED
    BY <2>1
<1> HIDE DEF S
<1>4. ASSUME NEW k \in 1 .. n, NEW v \in V, NEW more \in Next1(v, k)
      PROVE  \E b \in v : \E d \in DeviceOf(sources[k], b, cameras) :
                             /\ \A i \in DOMAIN b : b[i].id # sources[k].id
                             /\ more = Append(b, [id |-> sources[k].id, device |-> d])
  BY DEF AddSource
<1>5. ASSUME NEW k \in 1 .. n, NEW v \in V PROVE Next1(v, k) \in V
  <2>1. ASSUME NEW more \in Next1(v, k) PROVE more \in Seq(S)
    <3>1. PICK b \in v : \E d \in DeviceOf(sources[k], b, cameras) :
                             more = Append(b, [id |-> sources[k].id, device |-> d])
      BY <1>4, Zenon
    <3>2. PICK d \in DeviceOf(sources[k], b, cameras) : more = Append(b, [id |-> sources[k].id, device |-> d])
      BY <3>1
    <3>3. b \in Seq(S) /\ [id |-> sources[k].id, device |-> d] \in S
      BY <1>3
    <3> QED
      BY <3>2, <3>3
  <2> HIDE DEF Next1
  <2> QED
    BY <2>1
<1>6. step \in [1 .. n -> [V -> V]]
  <2> HIDE DEF Next1, V
  <2> QED
    BY <1>5
<1>7. \E h : Equation(h)
  <2> DEFINE base == {<< >>}
  <2> HIDE DEF base, V, Next1
  <2>1. PICK h \in [SUBSET (1 .. n) -> V] : Folds(h, n, base, step)
    <3>1. base \in V
      BY <1>2 DEF base
    <3> HIDE DEF step
    <3> QED
      BY <1>6, <3>1, FoldExists
  <2>2. ASSUME NEW s \in SUBSET (1 .. n), s # {} PROVE h[s] = Next1(h[s \ {Max(s)}], Max(s))
    <3>1. Max(s) \in 1 .. n
      BY <2>2, LargestExists
    <3>2. s \ {Max(s)} \in SUBSET (1 .. n)
      OBVIOUS
    <3>3. h[s] = step[Max(s)][h[s \ {Max(s)}]]
      BY <2>1, <2>2 DEF Folds
    <3>4. h[s \ {Max(s)}] \in V
      BY <3>2
    <3> QED
      BY <3>1, <3>3, <3>4
  <2>3. h[{}] = base
    BY <2>1 DEF Folds
  <2>4. h = [s \in SUBSET (1 .. n) |-> IF s = {} THEN base ELSE Next1(h[s \ {Max(s)}], Max(s))]
    <3> HIDE DEF step
    <3> QED
      BY <2>1, <2>2, <2>3
  <2>5. Equation(h)
    BY <2>4 DEF base
  <2> QED
    BY <2>5
<1>8. Equation(g)
  <2> HIDE DEF Equation
  <2> QED
    BY <1>7
<1> HIDE DEF g
<1>9. g[{}] \in I[0]
  <2>1. {} \in SUBSET (1 .. n) /\ g[{}] = {<< >>}
    BY <1>8
  <2>2. Streams(<< >>, 0)
    BY DEF Streams
  <2> HIDE DEF V
  <2> QED
    BY <1>2, <2>1, <2>2
<1>10. ASSUME NEW k \in 1 .. n, g[1 .. k - 1] \in I[k - 1] PROVE g[1 .. k] \in I[k]
  <2> DEFINE v == g[1 .. k - 1]
  <2>1. k \in Nat \ {0} /\ 1 .. k \in SUBSET (1 .. n) /\ k - 1 \in 0 .. n /\ k \in 0 .. n
    OBVIOUS
  <2>2. Max(1 .. k) = k /\ (1 .. k) \ {k} = 1 .. k - 1 /\ 1 .. k # {}
    BY <2>1, Firsts
  <2>3. g[1 .. k] = Next1(v, k)
    <3>1. g[1 .. k] = Next1(g[(1 .. k) \ {Max(1 .. k)}], Max(1 .. k))
      <4> HIDE DEF Next1
      <4> QED
        BY <1>8, <2>1, <2>2
    <3> HIDE DEF Next1
    <3> QED
      BY <2>2, <3>1
  <2>4. v \in V /\ \A b \in v : Streams(b, k - 1)
    BY <1>10, <2>1
  <2> HIDE DEF v, V
  <2>5. ASSUME NEW more \in Next1(v, k) PROVE Streams(more, k)
    <3>1. PICK b \in v : \E d \in DeviceOf(sources[k], b, cameras) :
                             /\ \A i \in DOMAIN b : b[i].id # sources[k].id
                             /\ more = Append(b, [id |-> sources[k].id, device |-> d])
      BY <1>4, <2>4
    <3>2. PICK d \in DeviceOf(sources[k], b, cameras) :
                             /\ \A i \in DOMAIN b : b[i].id # sources[k].id
                             /\ more = Append(b, [id |-> sources[k].id, device |-> d])
      BY <3>1
    <3> DEFINE stream == [id |-> sources[k].id, device |-> d]
    <3>3. b \in Seq(S) /\ stream \in S /\ Streams(b, k - 1)
      BY <1>3, <2>4, <3>2 DEF V
    <3>4. DOMAIN b = 1 .. k - 1
      BY <3>3 DEF Streams
    <3>5. d = NoCamera \/ \A i \in DOMAIN b : b[i].device # d
      BY <3>2, DeviceIsNew
    <3>6. \A i \in 1 .. k - 1 : b[i].id # stream.id
      BY <3>2, <3>4
    <3>7. stream.device # NoCamera => \A i \in 1 .. k - 1 : b[i].device # stream.device
      BY <3>4, <3>5
    <3> HIDE DEF stream
    <3>8. Streams(Append(b, stream), k)
      BY <2>1, <3>3, <3>6, <3>7, OneMoreStream
    <3> QED
      BY <3>2, <3>8 DEF stream
  <2>6. Next1(v, k) \in V
    BY <1>5, <2>4
  <2> HIDE DEF Next1
  <2> QED
    BY <2>1, <2>3, <2>5, <2>6
<1>11. g[1 .. n] \in I[n]
  <2> HIDE DEF I
  <2> QED
    BY <1>9, <1>10, FoldKeeps
<1>12. n \in 0 .. n
  OBVIOUS
<1> HIDE DEF V
<1> QED
  BY <1>1, <1>11, <1>12

\* A chain of the assembler that is built has a pool with tensors.
LEMMA TensorsMade ==
  ASSUME NEW p, NEW input, NEW channels, BuildChain(Nodes(p, input, channels)) # {}
  PROVE  Wrap(p.stage + 2) \in 1 .. VectorMax
<1> DEFINE nodes == Nodes(p, input, channels)
<1>1. /\ DOMAIN nodes = 1 .. 4 /\ nodes[1].kind = "resize" /\ nodes[2].kind = "crop"
      /\ nodes[3].kind = "tensor" /\ nodes[4].kind = "normalize" /\ nodes[3].buffers = Wrap(p.stage + 2)
  BY DEF Nodes
<1> HIDE DEF nodes
<1>2. Accepted(nodes)
  BY <1>1, BuildAccepts DEF nodes
<1> QED
  BY <1>1, <1>2 DEF Accepted

\* Two more than a size_t is a vector's length only where it did not wrap, or
\* where the size_t is the largest.
LEMMA TwoMore ==
  ASSUME NEW stage \in 0 .. SizeMax, Wrap(stage + 2) \in 1 .. VectorMax
  PROVE  \/ stage = SizeMax
         \/ Wrap(stage + 2) = stage + 2 /\ stage + 2 <= VectorMax
<1>1. SizeMax \in Nat \ {0} /\ VectorMax \in Nat /\ stage \in Nat /\ stage <= SizeMax
  BY SizeMaxAssumption, LimitsAssumption
<1>2. CASE stage + 2 <= SizeMax
  BY <1>1, <1>2 DEF Wrap
<1>3. CASE stage + 2 = SizeMax + 1
  <2>1. Wrap(stage + 2) = 0
    BY <1>1, <1>3 DEF Wrap
  <2> QED
    BY <2>1
<1>4. CASE stage + 2 = SizeMax + 2
  BY <1>1, <1>4
<1> QED
  BY <1>1, <1>2, <1>3, <1>4

\* A session that is assembled of a profile that was read can run, but for its
\* batch, and its artifact is one of the package's; or its stage queues were to
\* have as many slots as the largest size_t.
LEMMA AssembledRuns ==
  ASSUME NEW n \in 1 .. VectorMax, NEW profile, DOMAIN profile.sources = 1 .. n, NEW package, PackageTyped(package),
         profile.pipeline.stage \in 0 .. SizeMax,
         NEW plugin, NEW cameras, NEW session \in Assemble(profile, package, plugin, cameras)
  PROVE  /\ session.executor \in {"made", "length_error"}
         /\ session.executor = "made" => SessionRunnable(session) /\ IsPrefix(package.root, session.artifact.path)
         /\ session.executor = "length_error" => session.stage = SizeMax
         /\ session.batch > VectorMax => session.batch = profile.pipeline.batch
<1> DEFINE p == profile.pipeline
           CanRun(k) == /\ p.policy \in {"block", "drop"}
                        /\ BuildChain(Nodes(p, k.inputs[1], k.inputs[1].shape[2])) # {}
                        /\ CreatePostprocessor(k.outputs[1].name, p.threshold)
           Session(s, e, a) ==
              [sources |-> s, queue |-> p.queue, stage |-> p.stage, tensors |-> Wrap(p.stage + 2), policy |-> p.policy,
               batch |-> IF p.batch > 0 THEN p.batch ELSE Len(s), artifact |-> a, threshold |-> p.threshold, executor |-> e]
<1>1. PICK s \in BuildSources(profile.sources, cameras), e \in CreateExecutor(p.queue, p.stage, p.stage) :
         \E k \in LoadPackage(package) :
            CanRun(k) /\ \E a \in SelectArtifact(k, profile.backend) : session = Session(s, e, a)
  BY SMTT(30) DEF Assemble
<1>2. PICK k \in LoadPackage(package) :
         CanRun(k) /\ \E a \in SelectArtifact(k, profile.backend) : session = Session(s, e, a)
  BY <1>1
<1>3. PICK a \in SelectArtifact(k, profile.backend) : session = Session(s, e, a)
  BY <1>2
<1>4. /\ session.sources = s /\ session.queue = p.queue /\ session.stage = p.stage /\ session.tensors = Wrap(p.stage + 2)
      /\ session.policy = p.policy /\ session.batch = (IF p.batch > 0 THEN p.batch ELSE Len(s))
      /\ session.artifact = a /\ session.threshold = p.threshold /\ session.executor = e
  BY <1>3
<1>5. p.stage \in 0 .. SizeMax
  OBVIOUS
<1> HIDE DEF p
<1>6. /\ p.policy \in {"block", "drop"} /\ p.queue > 0 /\ p.stage > 0 /\ Finite(p.threshold)
      /\ e = IF p.stage <= VectorMax THEN "made" ELSE "length_error"
  BY <1>1, <1>2 DEF CreateExecutor, CreatePostprocessor, Only
<1>7. Wrap(p.stage + 2) \in 1 .. VectorMax
  BY <1>2, TensorsMade
<1>8. \/ p.stage = SizeMax /\ e = "length_error"
      \/ Wrap(p.stage + 2) = p.stage + 2 /\ p.stage + 2 <= VectorMax /\ e = "made"
  <2>1. CASE p.stage = SizeMax
    <3>1. ~(p.stage <= VectorMax)
      BY <2>1, SizeMaxAssumption, LimitsAssumption
    <3> QED
      BY <1>6, <2>1, <3>1
  <2>2. CASE Wrap(p.stage + 2) = p.stage + 2 /\ p.stage + 2 <= VectorMax
    <3>1. p.stage <= VectorMax
      BY <1>5, <2>2, SizeMaxAssumption, LimitsAssumption
    <3> QED
      BY <1>6, <2>2, <3>1
  <2> QED
    BY <1>5, <1>7, <2>1, <2>2, TwoMore
<1>9. Streams(s, n)
  BY SourcesBuilt
<1>10. Len(s) = n /\ n > 0 /\ ~(n > VectorMax)
  BY <1>9, LimitsAssumption DEF Streams
<1>11. session.batch > 0 /\ (session.batch > VectorMax => session.batch = p.batch)
  BY <1>4, <1>10
<1>12. /\ InjectiveBy(LAMBDA x : x.id, s)
      /\ \A i, j \in DOMAIN s : s[i].device = s[j].device => i = j \/ s[i].device = NoCamera
  <2>1. DOMAIN s = 1 .. n
    BY <1>9 DEF Streams
  <2> QED
    BY <1>9, <2>1 DEF Streams, InjectiveBy
<1>13. IsPrefix(package.root, session.artifact.path)
  BY <1>4, SelectedInside
<1>14. ASSUME e = "made" PROVE SessionRunnable(session)
  <2>1. session.tensors = session.stage + 2 /\ session.tensors <= VectorMax
    BY <1>4, <1>8, <1>14
  <2> QED
    BY <1>4, <1>6, <1>11, <1>12, <2>1 DEF SessionRunnable
<1>15. e = "length_error" => session.stage = SizeMax
  BY <1>4, <1>8
<1>16. e \in {"made", "length_error"}
  BY <1>8
<1> QED
  BY <1>4, <1>11, <1>13, <1>14, <1>15, <1>16 DEF p

\* A profile that is read has sources, and a stream for each; its stage queue's
\* capacity is a size_t, and its batch is small unless the document says so.
LEMMA ProfileRead ==
  ASSUME NEW d, ProfileTyped(d), NEW p \in ReadProfile(d)
  PROVE  /\ \E n \in 1 .. VectorMax : DOMAIN p.sources = 1 .. n
         /\ p.pipeline.stage \in 0 .. SizeMax
         /\ p.pipeline.batch > VectorMax => p.pipeline.batch = Wrap(d.pipeline.batch)
<1>1. d.sources \in Seq(Range(d.sources)) /\ Len(d.sources) \in 1 .. VectorMax
  BY DEF ProfileTyped, IsList, ReadProfile, Only
<1>2. DOMAIN d.sources = 1 .. Len(d.sources)
  BY <1>1, LenProperties
<1>3. DOMAIN p.sources = DOMAIN d.sources
  <2>1. p.sources = [i \in DOMAIN d.sources |-> CHOOSE s \in ParseSource(d.sources[i]) : TRUE]
    BY DEF ProfileTyped, ReadProfile, Only
  <2> QED
    BY <2>1
<1> DEFINE given == d.pipeline
           read == Completed(given, PipelineDefaults)
           sizes == {"short", "width", "height", "batch", "queue", "stage"}
<1>4. p.pipeline = [key \in DOMAIN read |-> IF key \in sizes THEN Wrap(read[key]) ELSE read[key]]
  BY DEF ProfileTyped, ReadProfile, Only
<1>5. /\ {"stage", "batch"} \subseteq DOMAIN PipelineDefaults
      /\ PipelineDefaults["stage"] = 1 /\ PipelineDefaults["batch"] = 0
  BY DEF PipelineDefaults
<1>6. ASSUME NEW key \in {"stage", "batch"}
      PROVE  key \in DOMAIN read /\ read[key] = IF key \in DOMAIN given THEN given[key] ELSE PipelineDefaults[key]
  <2> HIDE DEF given
  <2> QED
    BY <1>5, <1>6 DEF Completed
<1>7. \A key \in {"stage", "batch"} \cap DOMAIN given : given[key] \in Int
  BY DEF ProfileTyped
<1> HIDE DEF given, read
<1>8. p.pipeline.stage = Wrap(read["stage"]) /\ p.pipeline.batch = Wrap(read["batch"])
  BY <1>4, <1>6
<1>9. p.pipeline.stage \in 0 .. SizeMax
  <2>1. read["stage"] \in Int
    BY <1>5, <1>6, <1>7
  <2> QED
    BY <1>8, <2>1, SizeMaxAssumption DEF Wrap
<1>10. ASSUME p.pipeline.batch > VectorMax PROVE p.pipeline.batch = Wrap(d.pipeline.batch)
  <2>1. CASE "batch" \in DOMAIN given
    BY <1>6, <1>8, <2>1 DEF given
  <2>2. CASE "batch" \notin DOMAIN given
    <3>1. p.pipeline.batch = 0
      BY <1>5, <1>6, <1>8, <2>2, SizeMaxAssumption DEF Wrap
    <3> QED
      BY <1>10, <3>1, LimitsAssumption
  <2> QED
    BY <2>1, <2>2
<1> QED
  BY <1>1, <1>2, <1>3, <1>9, <1>10

\* A session that the preset makes of a deployment that was loaded can run, and
\* its artifact is one of the package's; or the queue of its serial executor
\* was to be longer than a vector.
LEMMA PresetRuns ==
  ASSUME NEW o, PackageTyped(o.package), NEW session \in CreatePreset(o)
  PROVE  PresetOutcome(o, session)
<1> DEFINE d == o.deployment
           p == [PipelineDefaults EXCEPT !.stage = d.stage]
           slots == IF d.performance = "serial" THEN d.queue ELSE d.stage
           CanRun(k) == /\ LoadDeployment(d) # {}
                        /\ BuildChain(Nodes(p, k.inputs[1], 1)) # {}
                        /\ CreatePostprocessor(k.outputs[1].name, o.threshold)
           Session(e, a) ==
              [sources |-> PresetSources, queue |-> d.queue, stage |-> d.stage, policy |-> d.policy,
               tensors |-> Wrap(d.stage + 2), batch |-> 1, artifact |-> a, threshold |-> o.threshold, executor |-> e]
<1>1. p.stage = d.stage
  BY DEF PipelineDefaults
<1>2. DOMAIN PresetSources = 1 .. 1
  <2> DEFINE stream == [id |-> "", device |-> NoCamera]
  <2> HIDE DEF stream
  <2>1. DOMAIN <<stream>> = 1 .. 1
    OBVIOUS
  <2> QED
    BY <2>1 DEF PresetSources, stream
<1>3. PICK k \in LoadPackage(o.package), e \in CreateExecutor(d.queue, d.stage, slots) :
         CanRun(k) /\ \E a \in SelectArtifact(k, d.backend) : session = Session(e, a)
  <2>1. PICK e \in CreateExecutor(d.queue, d.stage, slots) :
           \E k \in LoadPackage(o.package) :
              CanRun(k) /\ \E a \in SelectArtifact(k, d.backend) : session = Session(e, a)
    BY SMTT(60) DEF CreatePreset
  <2> QED
    BY <2>1
<1>4. PICK a \in SelectArtifact(k, d.backend) : session = Session(e, a)
  BY <1>3
<1>5. /\ session.sources = PresetSources /\ session.queue = d.queue /\ session.stage = d.stage
      /\ session.tensors = Wrap(d.stage + 2) /\ session.policy = d.policy /\ session.batch = 1
      /\ session.artifact = a /\ session.threshold = o.threshold /\ session.executor = e
  BY <1>4
<1>6. /\ d.policy \in {"drop", "block"}
      /\ d.queue \in 1 .. SizeMax \div 2 /\ d.stage \in 1 .. SizeMax \div 2
  BY <1>3 DEF LoadDeployment, Only
<1> HIDE DEF d, p
<1>7. /\ Finite(o.threshold)
      /\ e = IF slots <= VectorMax THEN "made" ELSE "length_error"
  BY <1>3 DEF CreateExecutor, CreatePostprocessor, Only
<1>8. Wrap(d.stage + 2) = d.stage + 2 /\ d.stage + 2 <= VectorMax
  <2>1. Wrap(d.stage + 2) \in 1 .. VectorMax
    BY <1>1, <1>3, TensorsMade
  <2>2. d.stage \in 0 .. SizeMax /\ d.stage # SizeMax
    BY <1>6, SizeMaxAssumption
  <2> QED
    BY <2>1, <2>2, TwoMore
<1>9. ASSUME e = "length_error" PROVE d.performance = "serial" /\ d.queue > VectorMax
  <2>1. ~(slots <= VectorMax)
    BY <1>7, <1>9
  <2>2. d.stage <= VectorMax
    BY <1>6, <1>8, SizeMaxAssumption, LimitsAssumption
  <2>3. d.performance = "serial" /\ ~(d.queue <= VectorMax)
    BY <2>1, <2>2
  <2> QED
    BY <1>6, <2>3, SizeMaxAssumption, LimitsAssumption
<1>10. /\ InjectiveBy(LAMBDA x : x.id, session.sources)
      /\ \A i, j \in DOMAIN session.sources :
            session.sources[i].device = session.sources[j].device => i = j \/ session.sources[i].device = NoCamera
  <2>1. DOMAIN session.sources = 1 .. 1
    BY <1>2, <1>5
  <2>2. \A i, j \in 1 .. 1 : i = j
    OBVIOUS
  <2> QED
    BY <2>1, <2>2 DEF InjectiveBy
<1>11. IsPrefix(o.package.root, session.artifact.path)
  BY <1>5, SelectedInside
<1>12. SessionRunnable(session)
  <2>1. d.queue > 0 /\ d.stage > 0
    BY <1>6, SizeMaxAssumption
  <2> QED
    BY <1>5, <1>6, <1>7, <1>8, <1>10, <2>1 DEF SessionRunnable, InjectiveBy
<1>13. e \in {"made", "length_error"}
  BY <1>7
<1> HIDE DEF slots
<1> QED
  BY <1>5, <1>9, <1>11, <1>12, <1>13 DEF PresetOutcome, d

\* A setting that reaches a camera is one that it can take.
LEMMA SettingFits ==
  ASSUME NEW o, o.value.value \in Int, NEW x \in Written(o)
  PROVE  x.value \in 0 .. FloatMax /\ (x.value = 0 => o.name = "gain")
<1>1. x = o.value /\ FloatSetting(o.value, o.name = "gain")
  BY DEF Written, Only
<1> QED
  BY <1>1, FloatMaxAssumption DEF FloatSetting

\* Outputs that a plugin was given room for.
Rooms ==
    {r \in [type : DataTypes, shape : Seq(Int), bytes : Nat] :
        \E m \in ValidateMetadata("Float32", r.shape, << >>) : m.bytes = r.bytes}

OutputMaps == UNION {[names -> Rooms] : names \in SUBSET STRING}

\* A call of the plugin gives room, or none.
LEMMA RoomGiven ==
  ASSUME NEW outputs \in OutputMaps, NEW call \in CallRecords
  PROVE  AllocateOutput(outputs, call) \in OutputMaps
<1> DEFINE room == {m \in ValidateMetadata("Float32", call.shape, << >>) : m.bytes = call.bytes}
           r == [type |-> call.type, shape |-> call.shape, bytes |-> call.bytes]
           more == [name \in DOMAIN outputs \cup {call.name} |-> IF name = call.name THEN r ELSE outputs[name]]
<1>1. CASE room = {} \/ AllocateOutput(outputs, call) = outputs
  BY <1>1 DEF AllocateOutput
<1>2. CASE room # {} /\ AllocateOutput(outputs, call) # outputs
  <2>1. AllocateOutput(outputs, call) = more
    BY <1>2 DEF AllocateOutput
  <2>2. r \in Rooms
    BY <1>2 DEF Rooms, CallRecords
  <2>3. PICK names \in SUBSET STRING : outputs \in [names -> Rooms]
    BY DEF OutputMaps
  <2>4. call.name \in STRING
    BY DEF CallRecords
  <2> HIDE DEF r
  <2>5. more \in [names \cup {call.name} -> Rooms]
    BY <2>2, <2>3
  <2>6. names \cup {call.name} \in SUBSET STRING
    BY <2>4
  <2> HIDE DEF more
  <2>7. more \in OutputMaps
    BY <2>5, <2>6 DEF OutputMaps
  <2> QED
    BY <2>1, <2>7
<1> QED
  BY <1>1, <1>2

\* The outputs of an inference are those that the plugin was given room for.
LEMMA OutputsHaveRoom ==
  ASSUME NEW inputs, NEW calls \in Seq(CallRecords), NEW status, NEW outputs \in PluginInfer(inputs, calls, status)
  PROVE  outputs \in OutputMaps
<1> DEFINE n == Len(calls)
           V == OutputMaps
           I == [k \in 0 .. n |-> V]
           step == [k \in 1 .. n |-> [v \in V |-> AllocateOutput(v, calls[k])]]
           Equation(g) == g = [s \in SUBSET DOMAIN calls |->
                                 IF s = {} THEN << >> ELSE AllocateOutput(g[s \ {Max(s)}], calls[Max(s)])]
           g == CHOOSE g : Equation(g)
<1>1. n \in Nat /\ DOMAIN calls = 1 .. n /\ \A k \in 1 .. n : calls[k] \in CallRecords
  BY LenProperties
<1>2. outputs = g[1 .. n]
  <2>1. outputs = FoldLeft(AllocateOutput, << >>, calls)
    BY DEF PluginInfer, Only
  <2> QED
    BY <1>1, <2>1 DEF FoldLeft, MapThenFoldSet
<1>3. << >> \in V
  <2>1. << >> \in [{} -> Rooms]
    OBVIOUS
  <2> QED
    BY <2>1 DEF OutputMaps
<1> HIDE DEF n, V
<1>4. \A k \in 1 .. n, v \in V : AllocateOutput(v, calls[k]) \in V
  BY <1>1, RoomGiven DEF V
<1>5. step \in [1 .. n -> [V -> V]]
  BY <1>4
<1>6. \E h : Equation(h)
  <2> DEFINE base == << >>
  <2> HIDE DEF base
  <2>1. PICK h \in [SUBSET (1 .. n) -> V] : Folds(h, n, base, step)
    <3>1. base \in V
      BY <1>3 DEF base
    <3> HIDE DEF step
    <3> QED
      BY <1>1, <1>5, <3>1, FoldExists
  <2>2. ASSUME NEW s \in SUBSET (1 .. n), s # {} PROVE h[s] = AllocateOutput(h[s \ {Max(s)}], calls[Max(s)])
    <3>1. Max(s) \in 1 .. n
      BY <1>1, <2>2, LargestExists
    <3>2. s \ {Max(s)} \in SUBSET (1 .. n)
      OBVIOUS
    <3>3. h[s] = step[Max(s)][h[s \ {Max(s)}]]
      BY <2>1, <2>2 DEF Folds
    <3>4. h[s \ {Max(s)}] \in V
      BY <3>2
    <3> QED
      BY <3>1, <3>3, <3>4
  <2>3. h[{}] = base
    BY <2>1 DEF Folds
  <2>4. h = [s \in SUBSET (1 .. n) |-> IF s = {} THEN base ELSE AllocateOutput(h[s \ {Max(s)}], calls[Max(s)])]
    <3> HIDE DEF step
    <3> QED
      BY <2>1, <2>2, <2>3
  <2>5. Equation(h)
    BY <1>1, <2>4 DEF base
  <2> QED
    BY <2>5
<1>7. g = [s \in SUBSET (1 .. n) |-> IF s = {} THEN << >> ELSE AllocateOutput(g[s \ {Max(s)}], calls[Max(s)])]
  <2>1. Equation(g)
    <3> HIDE DEF Equation
    <3> QED
      BY <1>6
  <2> QED
    BY <1>1, <2>1
<1> HIDE DEF g
<1>8. g[{}] \in I[0]
  <2>1. {} \in SUBSET (1 .. n) /\ 0 \in 0 .. n
    BY <1>1
  <2> QED
    BY <1>3, <1>7, <2>1
<1>9. ASSUME NEW k \in 1 .. n, g[1 .. k - 1] \in I[k - 1] PROVE g[1 .. k] \in I[k]
  <2>1. k \in Nat \ {0} /\ 1 .. k \in SUBSET (1 .. n) /\ k - 1 \in 0 .. n /\ k \in 0 .. n
    BY <1>1
  <2>2. Max(1 .. k) = k /\ (1 .. k) \ {k} = 1 .. k - 1 /\ 1 .. k # {}
    BY <2>1, Firsts
  <2>3. g[1 .. k] = AllocateOutput(g[1 .. k - 1], calls[k])
    <3>1. g[1 .. k] = AllocateOutput(g[(1 .. k) \ {Max(1 .. k)}], calls[Max(1 .. k)])
      BY <1>7, <2>1, <2>2
    <3> QED
      BY <2>2, <3>1
  <2>4. g[1 .. k - 1] \in V
    BY <1>9, <2>1
  <2> QED
    BY <1>4, <2>1, <2>3, <2>4
<1>10. g[1 .. n] \in I[n]
  <2> HIDE DEF I
  <2> QED
    BY <1>1, <1>8, <1>9, FoldKeeps
<1> QED
  BY <1>1, <1>2, <1>10 DEF V

\* A decision was made from the one number that the plugin was given room for.
LEMMA DecisionHasRoom ==
  ASSUME NEW outputs \in OutputMaps, NEW name, NEW threshold, NEW score,
         AnomalyDecision(name, threshold, outputs, score) # {}
  PROVE  outputs[name].bytes = DataTypeSize["Float32"]
<1> DEFINE r == outputs[name]
<1>1. name \in DOMAIN outputs /\ ElementCount(r.shape) = 1
  BY DEF AnomalyDecision, Only
<1>2. r \in Rooms
  BY <1>1 DEF OutputMaps
<1> HIDE DEF r
<1>3. PICK m \in ValidateMetadata("Float32", r.shape, << >>) : m.bytes = r.bytes
  BY <1>2 DEF Rooms
<1>4. r.shape \in Seq(Nat \ {0})
  <2>1. r.shape \in Seq(Int) /\ IsConcrete(r.shape)
    BY <1>2, <1>3 DEF Rooms, ValidateMetadata
  <2>2. Len(r.shape) \in Nat /\ DOMAIN r.shape = 1 .. Len(r.shape)
    BY <2>1
  <2>3. \A i \in 1 .. Len(r.shape) : r.shape[i] \in Nat \ {0}
    BY <2>1, <2>2 DEF IsConcrete
  <2> QED
    BY <2>1, <2>2, <2>3
<1>5. PICK Q : Counts(Q, r.shape)
  <2>1. r.shape \in Seq(Nat)
    BY <1>4
  <2> QED
    BY <2>1, CountsExist
<1>6. Q[0] = 1
  BY <1>1, <1>4, <1>5, CountExact DEF r
<1>7. "Float32" \in DataTypes /\ DataTypeSize["Float32"] = 4
  BY DEF DataTypes, DataTypeSize
<1>8. m.bytes = DataTypeSize["Float32"] * Q[0]
  BY <1>3, <1>4, <1>5, <1>7, MetadataExact DEF Packed
<1> QED
  BY <1>3, <1>6, <1>7, <1>8 DEF r

\* AssembledIsRunnable: whatever the documents say, loading refuses them, makes
\* a session that can run, or meets one of the sizes that the property names;
\* a setting that reaches a camera is one it can take, and a decision was made
\* from the number that the plugin was given room for.
THEOREM AssembledIsRunnableHolds ==
  ASSUME \A s \in Samples : s \in Inputs \/ DocumentTyped(s)
  PROVE  SampleSpec => []AssembledIsRunnable
<1> DEFINE Chosen == sample \in Samples
<1>1. SampleInit => Chosen
  BY DEF SampleInit
<1>2. Chosen /\ [UNCHANGED sample]_sample => Chosen'
  OBVIOUS
<1>3. Chosen => AssembledIsRunnable
  <2>1. SUFFICES ASSUME sample \in Inputs \/ DocumentTyped(sample) PROVE AssembledIsRunnable
    OBVIOUS
  <2>2. CASE sample \in Inputs
    <3>1. sample.kind \in {"frame", "chain", "batch"}
      BY <2>2 DEF Inputs, FrameInputs, ChainInputs, BatchInputs
    <3> QED
      BY <3>1 DEF AssembledIsRunnable
  <2>3. CASE sample.kind = "profile" /\ ProfileTyped(sample.profile) /\ PackageTyped(sample.package)
    <3>1. ASSUME NEW session \in LoadAndAssemble(sample) PROVE ProfileOutcome(sample, session)
      <4>1. PICK p \in ReadProfile(sample.profile) :
               session \in Assemble(p, sample.package, sample.plugin, sample.cameras)
        BY DEF LoadAndAssemble
      <4>2. /\ p.pipeline.stage \in 0 .. SizeMax
            /\ p.pipeline.batch > VectorMax => p.pipeline.batch = Wrap(sample.profile.pipeline.batch)
        BY <2>3, ProfileRead
      <4>3. PICK n \in 1 .. VectorMax : DOMAIN p.sources = 1 .. n
        BY <2>3, ProfileRead
      <4>4. /\ session.executor \in {"made", "length_error"}
            /\ session.executor = "made" =>
                  SessionRunnable(session) /\ IsPrefix(sample.package.root, session.artifact.path)
            /\ session.executor = "length_error" => session.stage = SizeMax
            /\ session.batch > VectorMax => session.batch = p.pipeline.batch
        BY <2>3, <4>1, <4>2, <4>3, AssembledRuns
      <4> QED
        BY <4>2, <4>4 DEF ProfileOutcome
    <3> QED
      BY <2>3, <3>1 DEF AssembledIsRunnable
  <2>4. CASE sample.kind = "preset" /\ PackageTyped(sample.package)
    BY <2>4, PresetRuns DEF AssembledIsRunnable
  <2>5. CASE sample.kind = "setting" /\ sample.value.value \in Int
    BY <2>5, SettingFits DEF AssembledIsRunnable
  <2>6. CASE sample.kind = "inference" /\ sample.calls \in Seq(CallRecords)
    <3>1. ASSUME NEW outputs \in PluginInfer(sample.inputs, sample.calls, sample.status),
                 AnomalyDecision(sample.output, sample.threshold, outputs, sample.score) # {}
          PROVE  outputs[sample.output].bytes = DataTypeSize["Float32"]
      <4>1. outputs \in OutputMaps
        BY <2>6, OutputsHaveRoom
      <4> QED
        BY <3>1, <4>1, DecisionHasRoom
    <3> QED
      BY <2>6, <3>1 DEF AssembledIsRunnable
  <2> QED
    BY <2>1, <2>2, <2>3, <2>4, <2>5, <2>6 DEF DocumentTyped
<1> QED
  BY <1>1, <1>2, <1>3, PTL DEF SampleSpec

=============================================================================
