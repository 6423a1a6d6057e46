---------------------------- MODULE TaskDelivery ----------------------------
(***************************************************************************)
(* What a pipeline executor promises its caller, whatever happens between  *)
(* submission and delivery: accepted tasks are numbered in the order of    *)
(* acceptance, each of them is delivered exactly once and in that order,   *)
(* nothing is accepted after a stop, and wait() returns only when every    *)
(* accepted task has been delivered.                                       *)
(***************************************************************************)
EXTENDS Naturals, Sequences

CONSTANT Outcomes

VARIABLES
    accepted,   \* the number of accepted tasks
    open,       \* the executor still takes tasks
    delivered,  \* the deliveries so far: records [task, outcome]
    returned    \* wait() has returned

deliveryVars == <<accepted, open, delivered, returned>>

DeliveryInit ==
    /\ accepted = 0
    /\ open = TRUE
    /\ delivered = <<>>
    /\ returned = FALSE

Accept ==
    /\ open
    /\ accepted' = accepted + 1
    /\ UNCHANGED <<open, delivered, returned>>

Stop ==
    /\ open
    /\ open' = FALSE
    /\ UNCHANGED <<accepted, delivered, returned>>

Deliver(o) ==
    /\ Len(delivered) < accepted
    /\ delivered' = Append(delivered, [task |-> Len(delivered) + 1, outcome |-> o])
    /\ UNCHANGED <<accepted, open, returned>>

Return ==
    /\ ~open
    /\ Len(delivered) = accepted
    /\ ~returned
    /\ returned' = TRUE
    /\ UNCHANGED <<accepted, open, delivered>>

DeliveryNext == Accept \/ Stop \/ (\E o \in Outcomes : Deliver(o)) \/ Return

DeliverySafety == DeliveryInit /\ [][DeliveryNext]_deliveryVars

\* Every accepted task is eventually delivered, with or without a stop.
DeliverySpec == DeliverySafety /\ WF_deliveryVars(\E o \in Outcomes : Deliver(o))
=============================================================================
