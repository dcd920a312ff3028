---------------------------- MODULE MC_CallGate ----------------------------
(* An interactive request outside the batch, and an interactive and a      *)
(* background one that share its abort event.                              *)
EXTENDS CallGateProperties, TLC

CONSTANTS r1, r2, r3

MCRequests   == {r1, r2, r3}
MCBatch      == {r2, r3}
MCPriority   == [r \in MCRequests |-> IF r \in {r1, r3} THEN 0 ELSE 20]
MCHardLimits == {1, 3}

=============================================================================
