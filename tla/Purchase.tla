------------------------------ MODULE Purchase ------------------------------
(***************************************************************************)
(* What the payment component promises of an order and of the account's    *)
(* tier, without rows, notifications or crashes: an order the channel      *)
(* holds the right amount for is settled once, in one step.  Processes     *)
(* that were delivering the same order at that moment fall behind, and     *)
(* each of them may still deliver it late, once.                           *)
(***************************************************************************)
EXTENDS Naturals

CONSTANTS Orders, Addon, Target, Handlers, NoOrder

VARIABLES channel,  \* what the payment channel knows of an order
          settled,  \* the orders that were delivered
          behind,   \* the order a process is still delivering though it is settled
          tier      \* the tier of the account

vars == <<channel, settled, behind, tier>>

Init ==
    /\ channel = [o \in Orders |-> "unpaid"]
    /\ settled = {}
    /\ behind = [h \in Handlers |-> NoOrder]
    /\ tier \in Nat

Pay(o) ==
    /\ channel[o] = "unpaid"
    /\ \E amount \in {"paid", "mismatch"} : channel' = [channel EXCEPT ![o] = amount]
    /\ UNCHANGED <<settled, behind, tier>>

Expire ==
    /\ tier' = 0
    /\ UNCHANGED <<channel, settled, behind>>

\* what a delivery of the order writes
TierDelivered(o) == tier' = IF o \in Addon THEN tier ELSE Target[o]

\* One process settles the order; some of the others are overtaken.
Settle(o, h) ==
    /\ channel[o] = "paid"
    /\ o \notin settled
    /\ settled' = settled \cup {o}
    /\ \E overtaken \in SUBSET {g \in Handlers \ {h} : behind[g] = NoOrder} :
          behind' = [g \in Handlers |-> IF g \in overtaken THEN o ELSE behind[g]]
    /\ TierDelivered(o)
    /\ UNCHANGED channel

\* A process that is behind delivers after all, or gives up.
CatchUp(h) ==
    /\ behind[h] # NoOrder
    /\ behind' = [behind EXCEPT ![h] = NoOrder]
    /\ TierDelivered(behind[h]) \/ tier' = tier
    /\ UNCHANGED <<channel, settled>>

Next ==
    \/ \E o \in Orders : Pay(o)
    \/ Expire
    \/ \E o \in Orders, h \in Handlers : Settle(o, h)
    \/ \E h \in Handlers : CatchUp(h)

Spec == Init /\ [][Next]_vars

=============================================================================
