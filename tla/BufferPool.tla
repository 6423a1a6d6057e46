------------------------------ MODULE BufferPool ------------------------------
(***************************************************************************)
(* memory::detail::BufferPool, of which camera::FrameBufferPool is the     *)
(* blocking or dropping front: buffers that are leased and come back when  *)
(* the last owner of the lease is gone, on whatever thread that is.        *)
(*                                                                         *)
(* A block under the pool's mutex is one step.  release() is two: the push *)
(* under the mutex and, after the unlock, notify_one, still `owed` then.   *)
(***************************************************************************)
EXTENDS Naturals, Sequences, FiniteSets, SequencesExt

CONSTANTS Buffers,  \* how many
          Takers    \* threads, each of which takes one buffer

ASSUME BuffersAssumption == Buffers \in Nat
ASSUME TakersAssumption == IsFiniteSet(Takers)

VARIABLES pool, taker

(* Buffers are handed out from the end; the first is on top at the start.  *)
PoolInit ==
    /\ \E policy \in {"Block", "Drop"} :
          pool = [available |-> Reverse([i \in 1 .. Buffers |-> i]), owed |-> 0,
                  stop |-> FALSE, policy |-> policy]
    /\ taker = [t \in Takers |-> [place |-> "test", buffer |-> {}]]

Asleep == {t \in Takers : taker[t].place = "asleep"}

(* acquire(): with Block it waits for a buffer or for the stop token.      *)
Acquire(t) ==
    /\ taker[t].place = "test"
    /\ IF pool.available # << >>
       THEN /\ taker' = [taker EXCEPT ![t] = [place |-> "leased", buffer |-> {Last(pool.available)}]]
            /\ pool' = [pool EXCEPT !.available = Front(@)]
       ELSE /\ taker' = [taker EXCEPT ![t].place = CASE pool.policy = "Drop" -> "exhausted"
                                                     [] pool.stop -> "cancelled"
                                                     [] OTHER -> "asleep"]
            /\ UNCHANGED pool

(* The lease of t ends. *)
Release_Mutant(t) ==
    /\ taker' = [taker EXCEPT ![t].buffer = {}]
    /\ pool' = [pool EXCEPT !.available = @ \o SetToSeq(taker[t].buffer)]

Release(t) ==
    /\ taker' = [taker EXCEPT ![t].buffer = {}]
    /\ pool' = [pool EXCEPT !.available = @ \o SetToSeq(taker[t].buffer),
                            !.owed = @ + Cardinality(taker[t].buffer)]

Notify ==
    /\ pool.owed > 0
    /\ pool' = [pool EXCEPT !.owed = @ - 1]
    /\ \/ Asleep = {} /\ UNCHANGED taker
       \/ \E t \in Asleep : taker' = [taker EXCEPT ![t].place = "test"]

(* The stop token wakes every sleeper, which then looks at the pool again. *)
RequestStop ==
    /\ ~pool.stop
    /\ pool' = [pool EXCEPT !.stop = TRUE]
    /\ taker' = [t \in Takers |-> IF t \in Asleep THEN [taker[t] EXCEPT !.place = "test"] ELSE taker[t]]

(* Every buffer is available or leased, once; and no wake-up is lost: as   *)
(* long as somebody sleeps, each available buffer has a notification still *)
(* owed or a thread that is awake and will look, the stop token included.  *)
Conserved ==
    LET free == ToSet(pool.available)
        leased == {t \in Takers : taker[t].buffer # {}}
    IN  /\ IsInjective(pool.available)
        /\ \A t \in leased : taker[t].buffer \cap free = {}
        /\ \A t, u \in leased : t # u => taker[t].buffer # taker[u].buffer
        /\ Cardinality(free) + Cardinality(leased) = Buffers
        /\ Asleep # {} =>
              Len(pool.available) <= pool.owed + Cardinality({t \in Takers : taker[t].place = "test"})

=============================================================================
