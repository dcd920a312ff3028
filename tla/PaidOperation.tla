--------------------------- MODULE PaidOperation ---------------------------
(***************************************************************************)
(* What the video job promises about money, without workers, leases or     *)
(* rows: each operation has an amount in the budget ledger, at most one     *)
(* request that the provider may still accept and at most one task that it *)
(* runs; a request is made only against a held amount and only when the    *)
(* operation has neither, and a held amount is given back only then.       *)
(***************************************************************************)
CONSTANT Ops

VARIABLES
    held,  \* the operations whose amount is in the ledger
    sent,  \* ... with a request that has no outcome yet
    live   \* ... with a paid task running at the provider

vars == <<held, sent, live>>

Init ==
    /\ held = {}
    /\ sent = {}
    /\ live = {}

Hold(o) ==
    /\ o \notin held
    /\ held' = held \cup {o}
    /\ UNCHANGED <<sent, live>>

Release(o) ==
    /\ o \in held \ (sent \cup live)
    /\ held' = held \ {o}
    /\ UNCHANGED <<sent, live>>

Submit(o) ==
    /\ o \in held \ (sent \cup live)
    /\ sent' = sent \cup {o}
    /\ UNCHANGED <<held, live>>

Accept(o) ==
    /\ o \in sent
    /\ sent' = sent \ {o}
    /\ live' = live \cup {o}
    /\ UNCHANGED held

\* The provider proves that it has not accepted: the amount goes back at once.
Refuse(o) ==
    /\ o \in sent
    /\ sent' = sent \ {o}
    /\ held' = held \ {o}
    /\ UNCHANGED live

Finish(o) ==
    /\ o \in live
    /\ live' = live \ {o}
    /\ UNCHANGED <<held, sent>>

Next == \E o \in Ops : \/ Hold(o) \/ Release(o) \/ Submit(o)
                       \/ Accept(o) \/ Refuse(o) \/ Finish(o)

Spec == Init /\ [][Next]_vars

\* Nothing is paid twice at a time, and nothing that may cost is off the books.
Promise ==
    /\ sent \cap live = {}
    /\ sent \cup live \subseteq held
    /\ held \subseteq Ops
=============================================================================
