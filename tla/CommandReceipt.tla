--------------------------- MODULE CommandReceipt ---------------------------
(***************************************************************************)
(* The command bus (app/capabilities): requests that carry the same        *)
(* idempotency key, the receipt of that key in command_idempotency, and    *)
(* the one-shot approvals.  Requests run in threads and processes of their *)
(* own: each step below is one transaction on the receipt, or one await.   *)
(***************************************************************************)
EXTENDS Naturals

CONSTANTS Requests,
          NoRequest,
          Body,      \* Body[r]: the request fingerprint
          Core,      \* Core[r]: the arguments an approval is bound to
          DryRun,    \* the requests that only ask for a preflight
          MaxLapses  \* bound: how often the receipt outlives its TTL

\* The fingerprint covers the arguments and the dry-run flag; an approval
\* leaves out the reason, which the user writes when approving.
ASSUME ReceiptAssumption ==
    /\ NoRequest \notin Requests
    /\ DryRun \subseteq Requests
    /\ \A r, q \in Requests :
          Body[r] = Body[q] => Core[r] = Core[q] /\ (r \in DryRun <=> q \in DryRun)
    /\ MaxLapses \in Nat

VARIABLES
    receipt,   \* the row of the key: its status, "none" without a row
    owner,     \* the request whose claim token (and fingerprint) it holds
    expired,   \* its TTL is over; it goes with the next lookup or claim
    pc,        \* where a request stands
    token,     \* the approval it carries, named by the request it answered
    approval,  \* the approvals in memory
    spent,     \* history: the approval a request consumed
    replayed,  \* history: whose result a request was answered with
    done,      \* history: the requests whose handler succeeded
    current,   \* history: the claims made since the key was last forgotten
    lost,      \* the requests that were cancelled or died with the process
    damaged,   \* a stored result cannot be read
    lapses

rowVars     == <<receipt, owner, expired>>
historyVars == <<spent, replayed, done, current>>
envVars     == <<lost, damaged, lapses>>
vars == <<rowVars, pc, token, approval, historyVars, envVars>>

Receipts  == {"none", "running", "stored", "unreadable"}
Approvals == {"none", "issued", "used", "gone"}
PC == {"idle", "preflight", "claim", "replace", "handler", "store", "release", "end"}

Init ==
    /\ receipt = "none"
    /\ owner = NoRequest
    /\ expired = FALSE
    /\ pc = [r \in Requests |-> "idle"]
    /\ token = [r \in Requests |-> NoRequest]
    /\ approval = [r \in Requests |-> "none"]
    /\ spent = [r \in Requests |-> NoRequest]
    /\ replayed = [r \in Requests |-> NoRequest]
    /\ done = {}
    /\ current = {}
    /\ lost = {}
    /\ damaged = FALSE
    /\ lapses = 0

-----------------------------------------------------------------------------

Goes(r, at) == pc' = [pc EXCEPT ![r] = at]

\* Mutation: only a result keeps others out.
LiveResult == receipt \in {"stored", "unreadable"} /\ ~expired

Live == receipt # "none" /\ ~expired

NoRow == receipt' = "none" /\ owner' = NoRequest /\ expired' = FALSE

\* Mutation: the fingerprint of the request is not compared.
AnyBody(r) == TRUE

SameBody(r) == Body[owner] = Body[r]

\* the caller gets the stored result of the owner
Replay(r) ==
    /\ Goes(r, "end")
    /\ replayed' = [replayed EXCEPT ![r] = owner]

\* a live receipt that answers the request: refused for other arguments,
\* already running, or done.  An unreadable result is no answer.
Answered(r) == Live /\ ~(SameBody(r) /\ receipt = "unreadable")

\* lookup, after the rows past their TTL are deleted.  A cached result does
\* not answer a request with an approval: that approval was used.
Submit(r, t) ==
    /\ pc[r] = "idle"
    /\ t = NoRequest \/ (t \in Requests /\ approval[t] # "none")
    /\ token' = [token EXCEPT ![r] = t]
    /\ IF expired THEN NoRow ELSE UNCHANGED rowVars
    /\ IF Answered(r)
       THEN IF SameBody(r) /\ receipt = "stored" /\ t = NoRequest
            THEN Replay(r)
            ELSE Goes(r, "end") /\ UNCHANGED replayed
       ELSE Goes(r, "preflight") /\ UNCHANGED replayed
    /\ UNCHANGED <<approval, spent, done, current, envVars>>

\* Mutation: a used approval is good again.
ApprovesAgain(r, t) == t \in Requests /\ approval[t] \in {"issued", "used"} /\ Core[t] = Core[r]

\* consume_approval: known, unused, not expired, for these arguments
Approves(r, t) == t \in Requests /\ approval[t] = "issued" /\ Core[t] = Core[r]

\* the gate refuses, or the state the approval was given for has changed
Denied(r) == Goes(r, "end") /\ UNCHANGED <<approval, spent>>

\* a dry run, or a command that needs no confirmation now
Unconfirmed(r) == Goes(r, "claim") /\ UNCHANGED <<approval, spent>>

\* the answer carries a new approval
Asks(r) ==
    /\ r \notin DryRun
    /\ token[r] = NoRequest
    /\ approval' = [approval EXCEPT ![r] = "issued"]
    /\ Goes(r, "end")
    /\ UNCHANGED spent

Consumes(r) ==
    /\ r \notin DryRun
    /\ Approves(r, token[r])
    /\ approval' = [approval EXCEPT ![token[r]] = "used"]
    /\ spent' = [spent EXCEPT ![r] = token[r]]
    /\ Goes(r, "claim")

\* preflight has been awaited; _gate decides
Gate(r) ==
    /\ pc[r] = "preflight"
    /\ Denied(r) \/ Unconfirmed(r) \/ Asks(r) \/ Consumes(r)
    /\ UNCHANGED <<rowVars, token, replayed, done, current, envVars>>

\* the receipt is taken; a dry run has its result already
Take(r) ==
    /\ receipt' = "running"
    /\ owner' = r
    /\ expired' = FALSE
    /\ current' = current \cup {r}
    /\ Goes(r, IF r \in DryRun THEN "store" ELSE "handler")

\* claim: one transaction, except for an unreadable result, which is committed
\* before it is replaced
Claim(r) ==
    /\ pc[r] = "claim"
    /\ \/ /\ Answered(r)
          /\ IF SameBody(r) /\ receipt = "stored"
             THEN Replay(r)
             ELSE Goes(r, "end") /\ UNCHANGED replayed
          /\ UNCHANGED <<rowVars, current>>
       \/ /\ Live /\ SameBody(r) /\ receipt = "unreadable"
          /\ Goes(r, "replace")
          /\ UNCHANGED <<rowVars, replayed, current>>
       \/ /\ ~Live
          /\ Take(r)
          /\ UNCHANGED replayed
    /\ UNCHANGED <<token, approval, spent, done, envVars>>

\* the DELETE names the key only: whatever is there by now goes
Replace(r) ==
    /\ pc[r] = "replace"
    /\ Take(r)
    /\ UNCHANGED <<token, approval, spent, replayed, done, envVars>>

\* Mutation: the receipt of a failed command stays.
HandleKeeps(r) ==
    /\ pc[r] = "handler"
    /\ \/ Goes(r, "store") /\ done' = done \cup {r}
       \/ Goes(r, "end") /\ UNCHANGED done
    /\ UNCHANGED <<rowVars, token, approval, spent, replayed, current, envVars>>

\* the handler has been awaited: it succeeded, or it failed, raised or found
\* its own operation in progress
Handle(r) ==
    /\ pc[r] = "handler"
    /\ \/ Goes(r, "store") /\ done' = done \cup {r}
       \/ Goes(r, "release") /\ UNCHANGED done
    /\ UNCHANGED <<rowVars, token, approval, spent, replayed, current, envVars>>

RunningMine(r) == receipt = "running" /\ owner = r

\* Mutation: the result is written whoever owns the receipt by now.
StoreAnyway(r) ==
    /\ pc[r] = "store"
    /\ receipt' = "stored"
    /\ owner' = r
    /\ expired' = FALSE
    /\ current' = current \cup {r}
    /\ Goes(r, "end")
    /\ UNCHANGED <<token, approval, spent, replayed, done, envVars>>

\* store: the result goes into the receipt the request still owns, past its
\* TTL or not; otherwise the call raises
Store(r) ==
    /\ pc[r] = "store"
    /\ IF RunningMine(r)
       THEN /\ receipt' = "stored"
            /\ owner' = r
            /\ expired' = FALSE
            /\ current' = current \cup {r}
            /\ Goes(r, "end")
       ELSE /\ Goes(r, IF r \in DryRun THEN "end" ELSE "release")
            /\ UNCHANGED <<rowVars, current>>
    /\ UNCHANGED <<token, approval, spent, replayed, done, envVars>>

\* release_if_running
Release(r) ==
    /\ pc[r] = "release"
    /\ IF RunningMine(r) THEN NoRow ELSE UNCHANGED rowVars
    /\ Goes(r, "end")
    /\ UNCHANGED <<token, approval, historyVars, envVars>>

-----------------------------------------------------------------------------
(* What happens to a request from outside.                                 *)

\* the request is cancelled: no handler catches CancelledError
Lose(r) ==
    /\ pc[r] \notin {"idle", "end"}
    /\ Goes(r, "end")
    /\ lost' = lost \cup {r}
    /\ UNCHANGED <<rowVars, token, approval, historyVars, damaged, lapses>>

\* the clock passes expires_at of the receipt
Lapse ==
    /\ Live
    /\ lapses < MaxLapses
    /\ lapses' = lapses + 1
    /\ expired' = TRUE
    /\ current' = {}
    /\ UNCHANGED <<receipt, owner, pc, token, approval, spent, replayed, done, lost, damaged>>

\* a stored result that the program (a newer one, say) cannot read
Damage ==
    /\ receipt = "stored"
    /\ ~damaged
    /\ damaged' = TRUE
    /\ receipt' = "unreadable"
    /\ current' = {}
    /\ UNCHANGED <<owner, expired, pc, token, approval, spent, replayed, done, lost, lapses>>

\* an approval expires
Forget(t) ==
    /\ approval[t] = "issued"
    /\ approval' = [approval EXCEPT ![t] = "gone"]
    /\ UNCHANGED <<rowVars, pc, token, historyVars, envVars>>

\* The process stops and starts again: every request in it is gone, and so
\* are the approvals, which live in memory.  init_db deletes a running claim,
\* so the key is free at once; what the command had done by then is for the
\* domain's own receipts to say.
Restart ==
    /\ pc' = [r \in Requests |-> IF pc[r] = "idle" THEN "idle" ELSE "end"]
    /\ lost' = lost \cup {r \in Requests : pc[r] \notin {"idle", "end"}}
    /\ approval' = [r \in Requests |-> IF approval[r] = "issued" THEN "gone" ELSE approval[r]]
    /\ IF receipt = "running"
       THEN NoRow /\ current' = {}
       ELSE UNCHANGED <<rowVars, current>>
    /\ UNCHANGED <<token, spent, replayed, done, damaged, lapses>>

Next ==
    \/ \E r \in Requests, t \in Requests \cup {NoRequest} : Submit(r, t)
    \/ \E r \in Requests :
          \/ Gate(r) \/ Claim(r) \/ Replace(r) \/ Handle(r) \/ Store(r) \/ Release(r)
          \/ Lose(r) \/ Forget(r)
    \/ Lapse
    \/ Damage
    \/ Restart

Spec == Init /\ [][Next]_vars

=============================================================================
