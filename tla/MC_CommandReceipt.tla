------------------------- MODULE MC_CommandReceipt -------------------------
(* Requests with the same arguments, one that gives a reason of its own (an *)
(* approval holds for it too, a result does not), and a dry run.           *)
EXTENDS CommandReceiptProperties, TLC

CONSTANTS first, retry, again, other, probe

MCBody == [r \in Requests |-> IF r = other THEN 2 ELSE IF r = probe THEN 3 ELSE 1]
MCCore == [r \in Requests |-> 1]

=============================================================================
