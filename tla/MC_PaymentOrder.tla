-------------------------- MODULE MC_PaymentOrder --------------------------
(* One add-on and two orders of different tiers, handled by two processes. *)
EXTENDS PaymentOrderProperties, TLC

CONSTANTS addon1, tierA, tierB

MCTarget == [o \in Orders |-> IF o = tierB THEN 2 ELSE 1]

=============================================================================
