---------------------- MODULE CommandReceiptProperties ----------------------
(* What the command bus promises to the requests of one idempotency key.   *)
EXTENDS CommandReceipt

TypeOK ==
    /\ receipt \in Receipts
    /\ owner \in Requests \cup {NoRequest}
    /\ receipt # "none" => owner \in Requests
    /\ expired \in BOOLEAN
    /\ pc \in [Requests -> PC]
    /\ token \in [Requests -> Requests \cup {NoRequest}]
    /\ approval \in [Requests -> Approvals]
    /\ spent \in [Requests -> Requests \cup {NoRequest}]
    /\ replayed \in [Requests -> Requests \cup {NoRequest}]
    /\ done \subseteq Requests
    /\ current \subseteq Requests
    /\ lost \subseteq Requests
    /\ damaged \in BOOLEAN
    /\ lapses \in Nat

\* Who works for the key, or has: a request that claimed the receipt and has
\* neither failed nor been answered otherwise.
Working == {r \in current : pc[r] \in {"handler", "store"} \/ r \in done}

\* Of the requests that claimed the key since it was last forgotten (by its
\* TTL, or by a restart that found it running), at most one executes or has
\* executed the command: two requests never pay for the same thing, however
\* they interleave, fail or get cancelled.
\* It does not cover a stored result that cannot be read: claim commits
\* before it deletes that row, and the DELETE names the key alone, so two
\* requests that saw the same unreadable row both execute.
ExecutedOnce ==
    ~damaged => \A r, q \in Working : r = q

\* A result handed to another request is that of a command with exactly its
\* arguments, which succeeded (or was a dry run): a receipt that changes
\* hands between a lookup and a claim never crosses two commands.
ReplaysOwnResult ==
    \A r \in Requests :
        replayed[r] # NoRequest =>
            /\ Body[replayed[r]] = Body[r]
            /\ replayed[r] \in done \cup DryRun

\* An approval carries one request, for the arguments it was given for: two
\* requests that raced with the same approval do not both go on.
ApprovalsOneShot ==
    \A r \in Requests :
        spent[r] # NoRequest =>
            /\ Core[spent[r]] = Core[r]
            /\ \A q \in Requests : spent[q] = spent[r] => q = r

\* A stored result stays until its TTL is over: an owner that comes late, or
\* one that fails, neither overwrites nor deletes it (a result that cannot be
\* read aside).
ResultsStay ==
    [][receipt = "stored" /\ ~expired /\ ~damaged
         => owner' = owner /\ receipt' \in {"stored", "unreadable"}]_vars

\* A receipt that says "running" has somebody at work, or somebody who was
\* cancelled (its TTL or a restart frees the key then): however a command
\* ends otherwise, it leaves the result or frees the key for a retry.
NoOrphanReceipt ==
    receipt = "running" =>
        owner \in lost \/ pc[owner] \in {"handler", "store", "release"}

=============================================================================
