----------------------- MODULE CommandReceipt_proofs -----------------------
(***************************************************************************)
(* For any number of requests: the command of a key is executed once, a    *)
(* result is replayed to its own arguments only, an approval carries one   *)
(* request, and no receipt is left running by somebody who has ended.      *)
(***************************************************************************)
EXTENDS CommandReceiptProperties, TLAPS

\* An approval is spent once: it is "used" from then on, and a request gets
\* no approval before it has passed its gate.
ApprovalInv ==
    /\ \A r \in Requests : pc[r] \in {"idle", "preflight"} => approval[r] = "none"
    /\ \A r \in Requests : spent[r] # NoRequest =>
          /\ approval[spent[r]] = "used"
          /\ Core[spent[r]] = Core[r]
          /\ \A q \in Requests : spent[q] = spent[r] => q = r

\* What the receipt says of the request it names.
ResultInv ==
    /\ \A r \in Requests : pc[r] = "store" => r \in done \cup DryRun
    /\ receipt \in {"stored", "unreadable"} => owner \in done \cup DryRun
    /\ ReplaysOwnResult

\* Whoever works for the key since it was last forgotten is the owner of a
\* live receipt.  A request whose result came too late never owns it again,
\* so the release that follows deletes nothing.
OwnerInv ==
    /\ \A r \in done : pc[r] \in {"store", "release", "end"}
    /\ \A r \in Requests : pc[r] = "release" /\ r \in done => ~RunningMine(r)
    /\ \A r \in Requests : pc[r] = "replace" => damaged
    /\ receipt = "unreadable" => damaged
    /\ ~damaged => \A r \in Working : owner = r /\ Live
    /\ NoOrphanReceipt

IInv == TypeOK /\ ApprovalInv /\ ResultInv /\ OwnerInv

-----------------------------------------------------------------------------

\* The initial states.
LEMMA InitIInv == Init => IInv
<1> SUFFICES ASSUME Init PROVE IInv
  OBVIOUS
<1> USE DEF Init
<1>1. TypeOK
  BY DEF TypeOK, Receipts, Approvals, PC
<1>2. ApprovalInv
  BY DEF ApprovalInv
<1>3. ResultInv
  BY DEF ResultInv, ReplaysOwnResult
<1>4. OwnerInv
  BY DEF OwnerInv, Working, NoOrphanReceipt, RunningMine
<1> QED BY <1>1, <1>2, <1>3, <1>4 DEF IInv

\* Typing is inductive.
LEMMA TypeStep == TypeOK /\ [Next]_vars => TypeOK'
<1> SUFFICES ASSUME TypeOK, [Next]_vars PROVE TypeOK'
  OBVIOUS
<1> USE DEF TypeOK, Receipts, Approvals, PC, Goes, rowVars, historyVars, envVars
<1>1. ASSUME NEW r \in Requests, NEW t \in Requests \cup {NoRequest}, Submit(r, t)
      PROVE  TypeOK'
  <2>1. /\ receipt' \in Receipts /\ owner' \in Requests \cup {NoRequest}
        /\ expired' \in BOOLEAN /\ (receipt' # "none" => owner' \in Requests)
    BY <1>1 DEF Submit, NoRow
  <2>2. CASE Replay(r)
    BY <1>1, <2>1, <2>2 DEF Submit, Replay, Answered, Live
  <2>3. CASE \E at \in {"end", "preflight"} : Goes(r, at) /\ UNCHANGED replayed
    BY <1>1, <2>1, <2>3 DEF Submit
  <2> QED BY <1>1, <2>2, <2>3 DEF Submit
<1>2. ASSUME NEW r \in Requests, Gate(r) PROVE TypeOK'
  <2>1. CASE Denied(r)
    BY <1>2, <2>1 DEF Gate, Denied
  <2>2. CASE Unconfirmed(r)
    BY <1>2, <2>2 DEF Gate, Unconfirmed
  <2>3. CASE Asks(r)
    BY <1>2, <2>3 DEF Gate, Asks
  <2>4. CASE Consumes(r)
    BY <1>2, <2>4 DEF Gate, Consumes, Approves
  <2> QED BY <1>2, <2>1, <2>2, <2>3, <2>4 DEF Gate
<1>3. ASSUME NEW r \in Requests, Claim(r) PROVE TypeOK'
  <2>1. CASE Take(r) /\ UNCHANGED replayed
    BY <1>3, <2>1 DEF Claim, Take
  <2>2. CASE UNCHANGED <<rowVars, current>> /\ Replay(r)
    BY <1>3, <2>2 DEF Claim, Replay
  <2>3. CASE UNCHANGED <<rowVars, replayed, current>> /\ \E at \in PC : Goes(r, at)
    BY <1>3, <2>3 DEF Claim
  <2> QED BY <1>3, <2>1, <2>2, <2>3 DEF Claim
<1>4. ASSUME NEW r \in Requests, Replace(r) PROVE TypeOK'
  BY <1>4 DEF Replace, Take
<1>5. ASSUME NEW r \in Requests, Handle(r) PROVE TypeOK'
  BY <1>5 DEF Handle
<1>6. ASSUME NEW r \in Requests, Store(r) PROVE TypeOK'
  <2>1. CASE RunningMine(r)
    BY <1>6, <2>1 DEF Store
  <2>2. CASE ~RunningMine(r)
    BY <1>6, <2>2 DEF Store
  <2> QED BY <2>1, <2>2
<1>7. ASSUME NEW r \in Requests, Release(r) PROVE TypeOK'
  BY <1>7 DEF Release, RunningMine, NoRow
<1>8. ASSUME NEW r \in Requests, Lose(r) PROVE TypeOK'
  BY <1>8 DEF Lose
<1>9. ASSUME NEW r \in Requests, Forget(r) PROVE TypeOK'
  BY <1>9 DEF Forget
<1>10. CASE Lapse
  BY <1>10 DEF Lapse, Live
<1>11. CASE Damage
  BY <1>11 DEF Damage
<1>12. CASE Restart
  BY <1>12 DEF Restart, NoRow
<1>13. CASE UNCHANGED vars
  BY <1>13 DEF vars
<1> QED
  BY <1>1, <1>2, <1>3, <1>4, <1>5, <1>6, <1>7, <1>8, <1>9, <1>10, <1>11, <1>12, <1>13 DEF Next

\* Approvals change at the gate only, or are forgotten.
LEMMA ApprovalStep == TypeOK /\ ApprovalInv /\ [Next]_vars => ApprovalInv'
<1> SUFFICES ASSUME TypeOK, ApprovalInv, [Next]_vars PROVE ApprovalInv'
  OBVIOUS
<1> USE ReceiptAssumption DEF TypeOK, PC, Goes
<1>1. ASSUME NEW r \in Requests, pc[r] # "end", UNCHANGED <<approval, spent>>,
             NEW at, at \notin {"idle", "preflight"} \/ pc[r] = "idle", Goes(r, at)
      PROVE  ApprovalInv'
  BY <1>1 DEF ApprovalInv
<1>2. ASSUME NEW r \in Requests, NEW t \in Requests \cup {NoRequest}, Submit(r, t)
      PROVE  ApprovalInv'
  <2>1. PICK at : Goes(r, at)
    BY <1>2 DEF Submit, Replay
  <2> QED BY <1>1, <1>2, <2>1 DEF Submit
<1>3. ASSUME NEW r \in Requests, Gate(r) PROVE ApprovalInv'
  <2>1. CASE Denied(r)
    BY <1>1, <1>3, <2>1 DEF Gate, Denied
  <2>2. CASE Unconfirmed(r)
    BY <1>1, <1>3, <2>2 DEF Gate, Unconfirmed
  <2>3. CASE Asks(r)
    BY <1>3, <2>3 DEF Gate, Asks, ApprovalInv, Approvals
  <2>4. CASE Consumes(r)
    BY <1>3, <2>4 DEF Gate, Consumes, Approves, ApprovalInv, Approvals
  <2> QED BY <1>3, <2>1, <2>2, <2>3, <2>4 DEF Gate
<1>4. ASSUME NEW r \in Requests, Claim(r) PROVE ApprovalInv'
  BY <1>1, <1>4 DEF Claim, Replay, Take
<1>5. ASSUME NEW r \in Requests, Replace(r) PROVE ApprovalInv'
  BY <1>1, <1>5 DEF Replace, Take
<1>6. ASSUME NEW r \in Requests, Handle(r) PROVE ApprovalInv'
  BY <1>1, <1>6 DEF Handle
<1>7. ASSUME NEW r \in Requests, Store(r) PROVE ApprovalInv'
  BY <1>1, <1>7 DEF Store
<1>8. ASSUME NEW r \in Requests, Release(r) PROVE ApprovalInv'
  BY <1>1, <1>8 DEF Release, historyVars
<1>9. ASSUME NEW r \in Requests, Lose(r) PROVE ApprovalInv'
  BY <1>1, <1>9 DEF Lose, historyVars
<1>10. ASSUME NEW r \in Requests, Forget(r) PROVE ApprovalInv'
  BY <1>10 DEF Forget, historyVars, ApprovalInv, Approvals
<1>11. CASE Lapse
  BY <1>11 DEF Lapse, ApprovalInv
<1>12. CASE Damage
  BY <1>12 DEF Damage, ApprovalInv
<1>13. CASE Restart
  BY <1>13 DEF Restart, ApprovalInv, Approvals
<1>14. CASE UNCHANGED vars
  BY <1>14 DEF vars, historyVars, ApprovalInv
<1> QED
  BY <1>2, <1>3, <1>4, <1>5, <1>6, <1>7, <1>8, <1>9, <1>10, <1>11, <1>12, <1>13, <1>14 DEF Next

\* Results reach the receipt and the callers from finished commands only.
LEMMA ResultStep == TypeOK /\ ResultInv /\ [Next]_vars => ResultInv'
<1> SUFFICES ASSUME TypeOK, ResultInv, [Next]_vars PROVE ResultInv'
  OBVIOUS
<1> USE ReceiptAssumption DEF TypeOK, PC, Goes, rowVars, historyVars, ResultInv, ReplaysOwnResult
<1>1. ASSUME NEW r \in Requests, NEW t \in Requests \cup {NoRequest}, Submit(r, t)
      PROVE  ResultInv'
  BY <1>1 DEF Submit, Answered, Live, SameBody, Replay, NoRow
<1>2. ASSUME NEW r \in Requests, Gate(r) PROVE ResultInv'
  BY <1>2 DEF Gate, Denied, Unconfirmed, Asks, Consumes
<1>3. ASSUME NEW r \in Requests, Claim(r) PROVE ResultInv'
  BY <1>3 DEF Claim, Answered, Live, SameBody, Replay, Take
<1>4. ASSUME NEW r \in Requests, Replace(r) PROVE ResultInv'
  BY <1>4 DEF Replace, Take
<1>5. ASSUME NEW r \in Requests, Handle(r) PROVE ResultInv'
  BY <1>5 DEF Handle
<1>6. ASSUME NEW r \in Requests, Store(r) PROVE ResultInv'
  BY <1>6 DEF Store, RunningMine
<1>7. ASSUME NEW r \in Requests, Release(r) PROVE ResultInv'
  BY <1>7 DEF Release, RunningMine, NoRow
<1>8. ASSUME NEW r \in Requests, Lose(r) \/ Forget(r) PROVE ResultInv'
  BY <1>8 DEF Lose, Forget
<1>9. CASE Lapse \/ Damage
  BY <1>9 DEF Lapse, Damage, Live
<1>10. CASE Restart
  BY <1>10 DEF Restart, NoRow
<1>11. CASE UNCHANGED vars
  BY <1>11 DEF vars
<1> QED
  BY <1>1, <1>2, <1>3, <1>4, <1>5, <1>6, <1>7, <1>8, <1>9, <1>10, <1>11 DEF Next

\* The receipt is taken only when nobody works for the key.
LEMMA OwnerStep == TypeOK /\ OwnerInv /\ [Next]_vars => OwnerInv'
<1> SUFFICES ASSUME TypeOK, OwnerInv, [Next]_vars PROVE OwnerInv'
  OBVIOUS
<1> USE DEF TypeOK, PC, Goes, rowVars, historyVars, envVars, OwnerInv, Working,
        NoOrphanReceipt, RunningMine, Live
<1>1. ASSUME NEW r \in Requests, NEW t \in Requests \cup {NoRequest}, Submit(r, t)
      PROVE  OwnerInv'
  BY <1>1 DEF Submit, Answered, SameBody, Replay, NoRow
<1>2. ASSUME NEW r \in Requests, Gate(r) PROVE OwnerInv'
  BY <1>2 DEF Gate, Denied, Unconfirmed, Asks, Consumes
<1>3. ASSUME NEW r \in Requests, Claim(r) PROVE OwnerInv'
  <2>1. CASE Take(r) /\ ~Live
    BY <1>3, <2>1 DEF Claim, Take
  <2>2. CASE UNCHANGED <<rowVars, current>>
    <3>1. r \notin Working /\ (owner = r /\ receipt = "running" => r \in lost)
      BY <1>3 DEF Claim
    <3>2. PICK at \in {"end", "replace"} : Goes(r, at) /\ (at = "replace" => receipt = "unreadable")
      BY <1>3, <2>2 DEF Claim, Replay, Take
    <3>3. Working' \subseteq Working
      BY <1>3, <2>2, <3>1, <3>2 DEF Claim
    <3> QED BY <1>3, <2>2, <3>1, <3>2, <3>3 DEF Claim
  <2> QED BY <1>3, <2>1, <2>2 DEF Claim
<1>4. ASSUME NEW r \in Requests, Replace(r) PROVE OwnerInv'
  <2>1. damaged /\ damaged'
    BY <1>4 DEF Replace
  <2> QED BY <1>4, <2>1 DEF Replace, Take
<1>5. ASSUME NEW r \in Requests, Handle(r) PROVE OwnerInv'
  BY <1>5 DEF Handle
<1>6. ASSUME NEW r \in Requests, Store(r) PROVE OwnerInv'
  BY <1>6 DEF Store
<1>7. ASSUME NEW r \in Requests, Release(r) PROVE OwnerInv'
  BY <1>7 DEF Release, NoRow
<1>8. ASSUME NEW r \in Requests, Lose(r) \/ Forget(r) PROVE OwnerInv'
  BY <1>8 DEF Lose, Forget
<1>9. CASE Lapse \/ Damage
  BY <1>9 DEF Lapse, Damage
<1>10. CASE Restart
  BY <1>10 DEF Restart, NoRow
<1>11. CASE UNCHANGED vars
  BY <1>11 DEF vars
<1> QED
  BY <1>1, <1>2, <1>3, <1>4, <1>5, <1>6, <1>7, <1>8, <1>9, <1>10, <1>11 DEF Next

\* The strengthened invariant holds in every reachable state.
LEMMA Invariance == Spec => []IInv
<1>1. IInv /\ [Next]_vars => IInv'
  BY TypeStep, ApprovalStep, ResultStep, OwnerStep DEF IInv
<1> QED BY InitIInv, <1>1, PTL DEF Spec

-----------------------------------------------------------------------------

\* Every variable keeps its type, and a receipt names a request.
THEOREM TypeCorrect == Spec => []TypeOK
BY Invariance, PTL DEF IInv

\* The command of a key is executed at most once between two lapses of its
\* receipt (idempotency.claim, store and release_if_running).
THEOREM CommandsExecuteOnce == Spec => []ExecutedOnce
<1>1. IInv => ExecutedOnce
  BY DEF IInv, OwnerInv, ExecutedOnce
<1> QED BY <1>1, Invariance, PTL

\* A request is only ever answered with a result for its own arguments.
THEOREM ReplaysAreOwn == Spec => []ReplaysOwnResult
BY Invariance, PTL DEF IInv, ResultInv

\* One approval, one request (policy.consume_approval).
THEOREM ApprovalIsOneShot == Spec => []ApprovalsOneShot
<1>1. IInv => ApprovalsOneShot
  BY DEF IInv, ApprovalInv, ApprovalsOneShot
<1> QED BY <1>1, Invariance, PTL

\* A running receipt has somebody at work, or somebody who was lost.
THEOREM ReceiptsAreSettled == Spec => []NoOrphanReceipt
BY Invariance, PTL DEF IInv, OwnerInv

\* A stored result is neither overwritten nor deleted within its TTL.
THEOREM ResultsAreKept == Spec => ResultsStay
<1>1. IInv /\ [Next]_vars
        => (receipt = "stored" /\ ~expired /\ ~damaged
              => owner' = owner /\ receipt' \in {"stored", "unreadable"})
  BY DEF IInv, OwnerInv, Next, vars, rowVars, Submit, Gate, Claim, Take, Live, Replace, Handle, Store, RunningMine,
     Release, Lose, Forget, Lapse, Damage, Restart, Answered
<1>2. IInv /\ [Next]_vars
        => [receipt = "stored" /\ ~expired /\ ~damaged
              => owner' = owner /\ receipt' \in {"stored", "unreadable"}]_vars
  BY <1>1
<1> QED BY <1>2, Invariance, PTL DEF Spec, ResultsStay

=============================================================================
