------------------------ MODULE DeliveryPackage_proofs ------------------------
(***************************************************************************)
(* Proofs about DeliveryPackage, for any packages, requests and number of  *)
(* adoptions, publications, expired leases and restarts.                   *)
(***************************************************************************)
EXTENDS DeliveryPackageProperties, FiniteSetTheorems, TLAPS

-----------------------------------------------------------------------------
(* The types.                                                              *)

\* A running thread has its package, and a receipt whose phase has moved has had
\* an owner.
TargetKnown == \A r \in Requests : pc[r] \in Running => target[r] \in Packages
PhaseOwned  == \A p \in Packages : receipt[p].phase # "claimed" => receipt[p].owner # NoOne

TypeInv == TypeOK /\ TargetKnown /\ PhaseOwned

\* TypeOK by groups of variables, as the actions write them.
ReceiptType ==
    /\ receipt \in [Packages -> Receipt]
    /\ \A p \in Packages : LET c == receipt[p] IN
        /\ c.status = "running" => c.owner # NoOne
        /\ c.oldPhase \in Promoted => c.oldSpace # NoOne
    /\ PhaseOwned
ThreadType ==
    /\ pc \in [Requests -> PC]
    /\ target \in [Requests -> Packages \cup {NoOne}]
    /\ seen \in [Requests -> Authority]
    /\ remnant \in [Requests -> Requests \cup {NoOne}]
    /\ TargetKnown
FileType ==
    /\ spaces \subseteq Requests /\ archives \subseteq Requests
    /\ dir \in [Packages -> Requests \cup {NoOne}]
    /\ zip \in [Packages -> Requests \cup {NoOne}]
EpisodeType ==
    /\ row \in [Packages -> Row]
    /\ pointer \in Packages \cup {NoOne}
    /\ delivery \in {"not_ready", "waiting_human", "approved", "rejected"}
    /\ version \in Authority
    /\ changes \in 0..MaxChanges
    /\ left \in [Packages -> {"none", "waiting_human", "approved"}]
BoundType ==
    /\ resume \in [Packages -> {"none", "paused", "tried"}]
    /\ lapses \in 0..MaxLapses /\ crashes \in 0..MaxCrashes
    /\ overtaken \subseteq Packages

LEMMA TypeGroups ==
    /\ TypeInv <=> ReceiptType /\ ThreadType /\ FileType /\ EpisodeType /\ BoundType
    /\ TypeInv' <=> ReceiptType' /\ ThreadType' /\ FileType' /\ EpisodeType' /\ BoundType'
BY DEF TypeInv, TypeOK, ReceiptType, ThreadType, FileType, EpisodeType, BoundType

LEMMA TypeInit == Init => TypeInv
BY DeliveryAssumption
   DEF Init, TypeInv, TypeOK, TargetKnown, PhaseOwned, Receipt, Row, Phases, Promoted, PC,
       Running, Authority, Versions, First

\* what the steps of a thread leave alone keeps its type
LEMMA Untouched ==
    /\ ReceiptType /\ UNCHANGED receipt => ReceiptType'
    /\ FileType /\ UNCHANGED fileVars => FileType'
    /\ EpisodeType /\ UNCHANGED episodeVars => EpisodeType'
    /\ BoundType /\ UNCHANGED <<resume, boundVars, overtaken>> => BoundType'
BY DEF ReceiptType, PhaseOwned, FileType, fileVars, EpisodeType, episodeVars, BoundType, boundVars

LEMMA GoesType ==
    ASSUME ThreadType, NEW r \in Requests, NEW from \in Running, NEW to \in Running,
           Goes(r, from, to), UNCHANGED <<target, seen, remnant>>
    PROVE  ThreadType'
BY DEF ThreadType, TargetKnown, Goes, Running

LEMMA TakeType ==
    ASSUME TypeInv, NEW r \in Requests, NEW p \in Packages, Take(r, p)
    PROVE  ReceiptType' /\ ThreadType' /\ FileType' /\ EpisodeType' /\ overtaken' \subseteq Packages
<1>. USE TypeGroups
<1>1. ReceiptType'
  <2>1. receipt' = [receipt EXCEPT ![p] = Claimed(receipt[p], r)]
    BY DEF Take
  <2>2. receipt[p] \in Receipt /\ r # NoOne
    BY DeliveryAssumption DEF ReceiptType
  <2>3. Claimed(receipt[p], r) \in Receipt
    BY <2>2 DEF Claimed, Receipt, Phases
  <2>4. /\ Claimed(receipt[p], r).owner # NoOne
        /\ Claimed(receipt[p], r).oldPhase \in Promoted => Claimed(receipt[p], r).oldSpace # NoOne
    BY <2>2 DEF Claimed, ReceiptType, PhaseOwned, Promoted
  <2>. QED BY <2>1, <2>3, <2>4 DEF ReceiptType, PhaseOwned
<1>2. ThreadType'
  BY DEF Take, ThreadType, TargetKnown, PC, Running
<1>3. FileType' /\ EpisodeType' /\ overtaken' \subseteq Packages
  BY Untouched DEF Take, BoundType
<1>. QED BY <1>1, <1>2, <1>3

LEMMA AdvanceType ==
    ASSUME TypeInv, NEW r \in Requests, NEW from \in Running, NEW phase \in Phases,
           NEW to \in Running, Advance(r, from, phase, to)
    PROVE  TypeInv'
<1>. USE TypeGroups
<1>1. ReceiptType'
  BY DEF Advance, Goes, Mine, ReceiptType, PhaseOwned, ThreadType, TargetKnown, Receipt
<1>2. ThreadType'
  <2>1. (IF Mine(r) THEN to ELSE "failing") \in Running
    BY DEF Running, PC
  <2>. QED BY <2>1, GoesType DEF Advance
<1>3. FileType' /\ EpisodeType' /\ BoundType'
  BY Untouched DEF Advance
<1>. QED BY <1>1, <1>2, <1>3

\* threads that end lose what they knew
LEMMA ForgetType ==
    ASSUME ThreadType, NEW ended \in SUBSET Requests, Forget(ended),
           pc' = [r \in Requests |-> IF r \in ended THEN "over" ELSE pc[r]]
    PROVE  ThreadType'
<1>1. First \in Authority /\ "over" \in PC /\ "over" \notin Running
  BY DeliveryAssumption DEF First, Authority, Versions, PC, Running
<1>2. \A r \in Requests : /\ pc[r] \in PC /\ target[r] \in Packages \cup {NoOne}
                          /\ seen[r] \in Authority /\ remnant[r] \in Requests \cup {NoOne}
  BY DEF ThreadType
<1>. QED BY <1>1, <1>2 DEF Forget, ThreadType, TargetKnown

LEMMA SettleType ==
    ASSUME TypeInv, NEW r \in Requests, NEW from \in Running,
           NEW status \in {"succeeded", "failed"}, Settle(r, from, status)
    PROVE  TypeInv'
<1>. USE TypeGroups
<1>0. target[r] \in Packages
  BY DEF Settle, Goes, ThreadType, TargetKnown
<1>1. ReceiptType'
  <2>1. CASE ~Mine(r)
    BY <2>1, Untouched DEF Settle
  <2>2. CASE Mine(r)
    <3>1. receipt' = [receipt EXCEPT ![target[r]].status = status, ![target[r]].live = FALSE]
      BY <2>2 DEF Settle
    <3>2. receipt[target[r]] \in Receipt
      BY <1>0 DEF ReceiptType
    <3>3. [receipt[target[r]] EXCEPT !.status = status, !.live = FALSE] \in Receipt
      BY <3>2 DEF Receipt
    <3>4. receipt' = [receipt EXCEPT ![target[r]] =
                        [receipt[target[r]] EXCEPT !.status = status, !.live = FALSE]]
      BY <1>0, <3>1, <3>2 DEF ReceiptType, Receipt
    <3>. QED BY <1>0, <3>2, <3>3, <3>4 DEF ReceiptType, PhaseOwned, Receipt
  <2>. QED BY <2>1, <2>2
<1>2. ThreadType'
  <2>1. pc' = [s \in Requests |-> IF s \in {r} THEN "over" ELSE pc[s]]
    BY DEF Settle, Goes, ThreadType
  <2>. QED BY <2>1, ForgetType DEF Settle
<1>3. FileType' /\ EpisodeType' /\ BoundType'
  BY Untouched DEF Settle
<1>. QED BY <1>1, <1>2, <1>3

LEMMA StepType == ASSUME TypeInv, NEW r \in Requests, Step(r) PROVE TypeInv'
<1>. USE TypeGroups
<1>0. ASSUME pc[r] \in Running PROVE target[r] \in Packages
  BY <1>0 DEF ThreadType, TargetKnown
<1>. USE DEF Running, PC
<1>1. CASE Begin(r)
  <2>1. ThreadType'
    BY <1>1 DEF Begin, Goes, ThreadType, TargetKnown, PC, EpisodeType
  <2>2. FileType'
    BY <1>0, <1>1 DEF Begin, FileType
  <2>3. ReceiptType' /\ EpisodeType' /\ BoundType'
    BY <1>1, Untouched DEF Begin
  <2>. QED BY <2>1, <2>2, <2>3
<1>2. CASE Bind(r)
  <2>1. target[r] \in Packages
    BY <1>0, <1>2 DEF Bind, Goes
  <2>2. Remnant(receipt[target[r]]) \in Requests \cup {NoOne}
    BY <2>1 DEF Remnant, ReceiptType, Receipt
  <2>3. ThreadType'
    BY <1>2, <2>2 DEF Bind, Goes, ThreadType, TargetKnown, PC
  <2>4. ReceiptType'
    BY <1>2, <2>1 DEF Bind, Mine, ReceiptType, PhaseOwned, Receipt, Phases
  <2>5. FileType' /\ EpisodeType' /\ BoundType'
    BY <1>2, Untouched DEF Bind
  <2>. QED BY <2>3, <2>4, <2>5
<1>3. CASE Purge(r)
  <2>1. FileType'
    BY <1>3 DEF Purge, FileType
  <2>2. ThreadType'
    BY <1>3, GoesType DEF Purge, filesOnly, PC
  <2>3. ReceiptType' /\ EpisodeType' /\ BoundType'
    BY <1>3, Untouched DEF Purge, filesOnly
  <2>. QED BY <2>1, <2>2, <2>3
<1>4. CASE Build(r)
  <2>1. FileType' /\ ThreadType'
    BY <1>4, GoesType DEF Build, FileType, filesOnly, PC
  <2>2. ReceiptType' /\ EpisodeType' /\ BoundType'
    BY <1>4, Untouched DEF Build, filesOnly
  <2>. QED BY <2>1, <2>2
<1>5. CASE Renew(r)
  <2>1. ReceiptType'
    BY <1>0, <1>5 DEF Renew, Goes, Mine, ReceiptType, PhaseOwned, Receipt
  <2>2. (IF Mine(r) THEN "zip" ELSE "failing") \in PC \ {"idle"}
    BY DEF PC
  <2>3. ThreadType'
    BY <1>5, <2>2, GoesType DEF Renew, PC
  <2>4. FileType' /\ EpisodeType' /\ BoundType'
    BY <1>5, Untouched DEF Renew
  <2>. QED BY <2>1, <2>3, <2>4
<1>6. CASE Zip(r)
  <2>1. FileType'
    BY <1>6 DEF Zip, FileType
  <2>2. ThreadType'
    BY <1>6 DEF Zip, Goes, filesOnly, PC, ThreadType, TargetKnown
  <2>3. ReceiptType' /\ EpisodeType' /\ BoundType'
    BY <1>6, Untouched DEF Zip, filesOnly
  <2>. QED BY <2>1, <2>2, <2>3
<1>7. CASE Ready(r)
  BY <1>7, AdvanceType DEF Ready, PC, Phases
<1>8. CASE PromoteDir(r)
  <2>1. FileType'
    BY <1>8 DEF PromoteDir, FileType
  <2>2. ThreadType'
    BY <1>8 DEF PromoteDir, Goes, filesOnly, PC, ThreadType, TargetKnown
  <2>3. ReceiptType' /\ EpisodeType' /\ BoundType'
    BY <1>8, Untouched DEF PromoteDir, filesOnly
  <2>. QED BY <2>1, <2>2, <2>3
<1>9. CASE Mark(r)
  BY <1>9, AdvanceType DEF Mark, PC, Phases
<1>10. CASE PromoteZip(r)
  <2>1. FileType'
    BY <1>10 DEF PromoteZip, FileType
  <2>2. ThreadType'
    BY <1>10 DEF PromoteZip, Goes, filesOnly, PC, ThreadType, TargetKnown
  <2>3. ReceiptType' /\ EpisodeType' /\ BoundType'
    BY <1>10, Untouched DEF PromoteZip, filesOnly
  <2>. QED BY <2>1, <2>2, <2>3
<1>11. CASE Remark(r)
  BY <1>11, AdvanceType DEF Remark, PC, Phases
<1>12. CASE Publish(r)
  <2>1. target[r] \in Packages
    BY <1>0, <1>12 DEF Publish, Goes
  <2>2. [status |-> "waiting_human", by |-> r, version |-> seen[r]] \in Row
    BY DEF Row, ThreadType
  <2>3. EpisodeType'
    BY <1>12, <2>1, <2>2 DEF Publish, EpisodeType
  <2>4. ThreadType'
    BY <1>12 DEF Publish, Goes, PC, ThreadType, TargetKnown
  <2>5. ReceiptType' /\ FileType' /\ BoundType'
    BY <1>12, Untouched DEF Publish
  <2>. QED BY <2>3, <2>4, <2>5
<1>13. CASE Finish(r) \/ Fail(r)
  BY <1>13, SettleType DEF Finish, Fail, PC
<1>. QED BY <1>1, <1>2, <1>3, <1>4, <1>5, <1>6, <1>7, <1>8, <1>9, <1>10, <1>11, <1>12, <1>13 DEF Step

\* the authority after a change
LEMMA ChangeType ==
    ASSUME EpisodeType, NEW outcomes \in SUBSET Authority, Change(outcomes)
    PROVE  version' \in Authority /\ changes' \in 0..MaxChanges
BY DeliveryAssumption DEF Change, EpisodeType

LEMMA OutcomeTypes ==
    ASSUME EpisodeType
    PROVE  /\ {[version EXCEPT !.videos = v] : v \in Versions} \subseteq Authority
           /\ {[version EXCEPT !.release = x] : x \in Versions \cup {NoOne}} \subseteq Authority
BY DEF EpisodeType, Authority

LEMMA LeaveType == ASSUME LeaveRows PROVE left' \in [Packages -> {"none", "waiting_human", "approved"}]
BY DEF LeaveRows, Standing

LEMMA ReviewType ==
    ASSUME TypeInv, NEW p \in Packages, Approve(p) \/ Reject(p)
    PROVE  TypeInv'
<1>. USE TypeGroups
<1>1. UNCHANGED reviewFrame
  BY DEF Approve, Reject
<1>2. ReceiptType' /\ ThreadType' /\ FileType' /\ BoundType'
  BY <1>1, Untouched DEF reviewFrame, threadVars, ThreadType, TargetKnown
<1>3. EpisodeType'
  BY DeliveryAssumption DEF Approve, Reject, EpisodeType, Row
<1>. QED BY <1>2, <1>3

LEMMA ChangesType ==
    ASSUME TypeInv, Adopt \/ Rewrite \/ Release \/ ClearDownstream
    PROVE  TypeInv'
<1>. USE TypeGroups, OutcomeTypes
<1>1. UNCHANGED reviewFrame
  BY DEF Adopt, Rewrite, Release, ClearDownstream
<1>2. ReceiptType' /\ ThreadType' /\ FileType' /\ BoundType'
  BY <1>1, Untouched DEF reviewFrame, threadVars, ThreadType, TargetKnown
<1>3. CASE Adopt
  <2>1. version' \in Authority /\ changes' \in 0..MaxChanges
    BY <1>3, ChangeType DEF Adopt
  <2>2. row' \in [Packages -> Row]
    BY <1>3 DEF Adopt, Superseded, EpisodeType, Row
  <2>. QED BY <1>2, <1>3, <2>1, <2>2 DEF Adopt, EpisodeType
<1>4. CASE Rewrite
  <2>1. version' \in Authority /\ changes' \in 0..MaxChanges
    BY <1>4, ChangeType DEF Rewrite
  <2>. QED BY <1>2, <1>4, <2>1, LeaveType DEF Rewrite, EpisodeType
<1>5. CASE Release
  <2>1. version' \in Authority
    BY <1>5 DEF Release, EpisodeType, Authority
  <2>. QED BY <1>2, <1>5, <2>1, LeaveType DEF Release, EpisodeType
<1>6. CASE ClearDownstream
  <2>1. version' \in Authority /\ changes' \in 0..MaxChanges
    <3>1. {[version EXCEPT !.release = NoOne]} \subseteq Authority
      OBVIOUS
    <3>. QED BY <1>6, <3>1, ChangeType DEF ClearDownstream
  <2>. QED BY <1>2, <1>6, <2>1, LeaveType DEF ClearDownstream, EpisodeType
<1>. QED BY <1>3, <1>4, <1>5, <1>6

LEMMA TypeStep == TypeInv /\ [Next]_vars => TypeInv'
<1>. SUFFICES ASSUME TypeInv, [Next]_vars PROVE TypeInv'
  OBVIOUS
<1>. USE TypeGroups
<1>1. ASSUME NEW r \in Requests, Step(r) PROVE TypeInv'
  BY <1>1, StepType
<1>2. ASSUME NEW r \in Requests, NEW p \in Packages, Claim(r, p) PROVE TypeInv'
  BY <1>2, TakeType DEF Claim, Take, boundVars, BoundType
<1>3. ASSUME NEW p \in Packages, Resume(p) PROVE TypeInv'
  <2>1. resume' \in [Packages -> {"none", "paused", "tried"}]
    BY <1>3 DEF Resume, BoundType
  <2>2. CASE \E r \in Requests : Take(r, p)
    BY <2>1, <2>2, TakeType DEF Take, boundVars, BoundType
  <2>3. CASE UNCHANGED <<receipt, threadVars, fileVars, episodeVars, boundVars, overtaken>>
    BY <2>1, <2>3, Untouched DEF boundVars, BoundType, threadVars, ThreadType, TargetKnown
  <2>. QED BY <1>3, <2>2, <2>3 DEF Resume
<1>4. ASSUME NEW p \in Packages, Approve(p) \/ Reject(p) PROVE TypeInv'
  BY <1>4, ReviewType
<1>5. CASE Adopt \/ Rewrite \/ Release \/ ClearDownstream
  BY <1>5, ChangesType
<1>6. ASSUME NEW p \in Packages, Lapse(p) PROVE TypeInv'
  <2>1. ReceiptType'
    BY <1>6 DEF Lapse, ReceiptType, PhaseOwned, Receipt
  <2>3. lapses' \in 0..MaxLapses
    BY <1>6, DeliveryAssumption DEF Lapse, BoundType
  <2>2. ThreadType' /\ FileType' /\ EpisodeType'
    BY <1>6, Untouched DEF Lapse, threadVars, ThreadType, TargetKnown
  <2>. QED BY <1>6, <2>1, <2>2, <2>3 DEF Lapse, BoundType
<1>7. CASE Crash
  <2>1. ReceiptType'
    <3>1. \A p \in Packages : [receipt[p] EXCEPT !.live = FALSE, !.interrupted = TRUE] \in Receipt
      BY DEF ReceiptType, Receipt
    <3>2. \A p \in Packages : receipt'[p] = IF receipt[p].status = "running"
                                            THEN [receipt[p] EXCEPT !.live = FALSE, !.interrupted = TRUE]
                                            ELSE receipt[p]
      BY <1>7 DEF Crash
    <3>3. \A p \in Packages : /\ receipt'[p].status = receipt[p].status
                              /\ receipt'[p].owner = receipt[p].owner
                              /\ receipt'[p].phase = receipt[p].phase
                              /\ receipt'[p].oldPhase = receipt[p].oldPhase
                              /\ receipt'[p].oldSpace = receipt[p].oldSpace
      BY <3>2 DEF ReceiptType, Receipt
    <3>. QED BY <1>7, <3>1, <3>2, <3>3 DEF Crash, ReceiptType, PhaseOwned
  <2>2. ThreadType'
    <3>1. pc' = [r \in Requests |-> IF r \in {s \in Requests : pc[s] \in Running} THEN "over" ELSE pc[r]]
      BY <1>7 DEF Crash
    <3>. QED BY <1>7, <3>1, ForgetType DEF Crash
  <2>3. BoundType'
    <3>1. crashes' \in 0..MaxCrashes
      <4>1. crashes < MaxCrashes /\ crashes' = crashes + 1
        BY <1>7 DEF Crash
      <4>. QED BY <4>1, DeliveryAssumption DEF BoundType
    <3>2. resume' \in [Packages -> {"none", "paused", "tried"}]
      BY <1>7, Zenon DEF Crash, BoundType
    <3>. QED BY <1>7, <3>1, <3>2 DEF Crash, BoundType
  <2>4. FileType' /\ EpisodeType'
    BY <1>7, Untouched DEF Crash
  <2>. QED BY <2>1, <2>2, <2>3, <2>4
<1>8. CASE UNCHANGED vars
  BY <1>8, Untouched DEF vars, threadVars, boundVars, ThreadType, TargetKnown
<1>. QED BY <1>1, <1>2, <1>3, <1>4, <1>5, <1>6, <1>7, <1>8 DEF Next

LEMMA TypesHold == Spec => []TypeInv
BY TypeInit, TypeStep, PTL DEF Spec

\* Receipts, threads, files and rows keep their types; a running receipt has an
\* owner, and what is left of a promotion names the workspace to purge.
THEOREM TypeCorrect == Spec => []TypeOK
<1>1. TypeInv => TypeOK
  BY DEF TypeInv
<1>. QED BY <1>1, TypesHold, PTL

-----------------------------------------------------------------------------
(* Review, retirement and publication.                                     *)

\* The drafts and the approved package are of the authority there is or stand as
\* its last change left them, and the episode points at its package.
Current ==
    /\ \A p, q \in Packages : row[p].status = "approved" /\ row[q].status = "approved" => p = q
    /\ \A p \in Packages : Standing(p) => row[p].version = version \/ row[p].status = left[p]
EpisodeInv == Current /\ EpisodeFollowsPackage

\* one lemma for what writes the row of a package, one for the changes
LEMMA PublishCurrent ==
    ASSUME TypeInv, EpisodeInv, NEW r \in Requests, Publish(r)
    PROVE  EpisodeInv'
<1>. DEFINE p == target[r]
<1>1. p \in Packages
  BY DEF Publish, Goes, TypeInv, TargetKnown, Running, PC
<1>2. p # NoOne
  BY <1>1, DeliveryAssumption
<1>3. CASE seen[r] = version /\ Holds(r) /\ row[p].status = "none"
  <2>1. /\ row' = [row EXCEPT ![p] = [status |-> "waiting_human", by |-> r, version |-> seen[r]]]
        /\ pointer' = p /\ delivery' = "waiting_human" /\ version' = version /\ left' = left
    BY <1>3 DEF Publish
  <2>2. /\ row'[p].status = "waiting_human" /\ row'[p].version = version
        /\ \A q \in Packages \ {p} : row'[q] = row[q]
    BY <1>1, <1>3, <2>1 DEF TypeInv, TypeOK
  <2>3. Current'
    BY <2>1, <2>2 DEF EpisodeInv, Current, Standing
  <2>. QED BY <1>2, <2>1, <2>2, <2>3 DEF EpisodeInv, EpisodeFollowsPackage
<1>4. CASE ~(seen[r] = version /\ Holds(r) /\ row[p].status = "none")
  BY <1>4 DEF Publish, EpisodeInv, Current, EpisodeFollowsPackage, Standing
<1>. QED BY <1>3, <1>4

LEMMA ReviewCurrent ==
    ASSUME TypeInv, EpisodeInv, NEW p \in Packages, Approve(p) \/ Reject(p)
    PROVE  EpisodeInv'
<1>0. /\ pointer = p /\ pointer' = p /\ version' = version /\ left' = left /\ p # NoOne
      /\ row[p].status = "waiting_human"
  BY DeliveryAssumption DEF Approve, Reject, Candidate
<1>1. CASE Approve(p)
  <2>1. row' = [q \in Packages |->
                CASE q = p -> [row[q] EXCEPT !.status = "approved"]
                  [] q # p /\ row[q].status = "approved" -> [row[q] EXCEPT !.status = "superseded"]
                  [] OTHER -> row[q]]
    BY <1>1 DEF Approve
  <2>2. /\ row'[p].status = "approved" /\ row'[p].version = version
        /\ \A q \in Packages \ {p} :
              /\ row'[q].status # "approved"
              /\ row'[q].status = "waiting_human" => row'[q] = row[q]
    BY <1>0, <1>1, <2>1 DEF TypeInv, TypeOK, Row, Approve, Verified
  <2>3. delivery' = "approved"
    BY <1>1 DEF Approve
  <2>. QED BY <1>0, <2>2, <2>3 DEF EpisodeInv, Current, EpisodeFollowsPackage, Standing
<1>2. CASE Reject(p)
  <2>1. /\ row'[p].status = "rejected"
        /\ \A q \in Packages \ {p} : row'[q] = row[q]
    BY <1>2 DEF Reject, TypeInv, TypeOK, Row
  <2>2. delivery' = "rejected"
    BY <1>2 DEF Reject
  <2>. QED BY <1>0, <2>1, <2>2 DEF EpisodeInv, Current, EpisodeFollowsPackage, Standing
<1>. QED BY <1>1, <1>2

LEMMA AdoptCurrent == ASSUME TypeInv, EpisodeInv, Adopt PROVE EpisodeInv'
<1>1. pointer' = NoOne /\ delivery' = "not_ready"
  BY DEF Adopt
<1>2. \A p \in Packages : row'[p].status \notin {"waiting_human", "approved"}
  BY DEF Adopt, Superseded, Standing, TypeInv, TypeOK, Row
<1>. QED BY <1>1, <1>2 DEF EpisodeInv, Current, EpisodeFollowsPackage, Standing

LEMMA LeaveCurrent ==
    ASSUME TypeInv, EpisodeInv, Rewrite \/ Release \/ ClearDownstream
    PROVE  EpisodeInv'
<1>1. row' = row /\ LeaveRows
  BY DEF Rewrite, Release, ClearDownstream
<1>2. Current'
  BY <1>1 DEF EpisodeInv, Current, LeaveRows, Standing
<1>3. \/ pointer' = pointer /\ delivery' = delivery
      \/ pointer' = NoOne /\ delivery' = "not_ready"
  BY DEF Rewrite, Release, ClearDownstream
<1>. QED BY <1>1, <1>2, <1>3 DEF EpisodeInv, EpisodeFollowsPackage

LEMMA EpisodeStep == TypeInv /\ EpisodeInv /\ [Next]_vars => EpisodeInv'
<1>. SUFFICES ASSUME TypeInv, EpisodeInv, [Next]_vars PROVE EpisodeInv'
  OBVIOUS
<1>1. ASSUME UNCHANGED episodeVars PROVE EpisodeInv'
  BY <1>1 DEF episodeVars, EpisodeInv, Current, EpisodeFollowsPackage, Standing
<1>2. ASSUME NEW r \in Requests, Step(r) PROVE EpisodeInv'
  <2>1. CASE Publish(r)
    BY <2>1, PublishCurrent
  <2>2. CASE ~Publish(r)
    <3>1. UNCHANGED episodeVars
      BY <1>2, <2>2 DEF Step, Begin, Bind, Purge, Build, Renew, Zip, Ready, PromoteDir, Mark,
         PromoteZip, Remark, Finish, Fail, Advance, Settle, filesOnly
    <3>. QED BY <1>1, <3>1
  <2>. QED BY <2>1, <2>2
<1>3. ASSUME NEW p \in Packages, Approve(p) \/ Reject(p) PROVE EpisodeInv'
  BY <1>3, ReviewCurrent
<1>4. CASE Adopt \/ Rewrite \/ Release \/ ClearDownstream
  BY <1>4, AdoptCurrent, LeaveCurrent
<1>5. ASSUME NEW p \in Packages, Resume(p) \/ Lapse(p) \/ \E r \in Requests : Claim(r, p)
      PROVE  UNCHANGED episodeVars
  BY <1>5 DEF Resume, Lapse, Claim, Take
<1>6. CASE Crash \/ UNCHANGED vars
  BY <1>1, <1>6 DEF Crash, vars
<1>. QED BY <1>1, <1>2, <1>3, <1>4, <1>5, <1>6 DEF Next

LEMMA EpisodeHolds == Spec => []EpisodeInv
<1>1. Init => EpisodeInv
  BY DEF Init, EpisodeInv, Current, EpisodeFollowsPackage, Standing
<1>. QED BY <1>1, EpisodeStep, TypesHold, PTL DEF Spec

\* A build that began before the videos or the release changed never publishes
\* after it, and an approval is of what there is now and retires the one before
\* it, whichever drafts are reviewed when: a package of other videos or another
\* release stands only as a change left it that retires none.
THEOREM OneApprovalAndCurrent == Spec => []OneCurrentApproval
<1>1. ASSUME EpisodeInv PROVE Cardinality({p \in Packages : row[p].status = "approved"}) <= 1
  <2>. DEFINE approved == {p \in Packages : row[p].status = "approved"}
  <2>1. CASE approved = {}
    <3>1. Cardinality(approved) = 0
      BY <2>1, FS_EmptySet
    <3>. QED BY <3>1
  <2>2. CASE approved # {}
    <3>1. PICK p \in approved : TRUE
      BY <2>2
    <3>2. approved = {p}
      BY <1>1, <3>1 DEF EpisodeInv, Current
    <3>3. Cardinality(approved) = 1
      BY <3>2, FS_Singleton
    <3>. QED BY <3>3
  <2>. QED BY <2>1, <2>2
<1>2. EpisodeInv => OneCurrentApproval
  BY <1>1 DEF OneCurrentApproval, EpisodeInv, Current
<1>. QED BY <1>2, EpisodeHolds, PTL

\* Publication, review and retirement move the episode and its package as one.
THEOREM EpisodeAndPackageAgree == Spec => []EpisodeFollowsPackage
<1>1. EpisodeInv => EpisodeFollowsPackage
  BY DEF EpisodeInv
<1>. QED BY <1>1, EpisodeHolds, PTL

-----------------------------------------------------------------------------
(* The files of a package.                                                 *)

\* Where a thread is that only replays a package, or gives up.
Replays  == {"claimed", "finish", "failing"}

\* As long as no lease was taken from a thread that still ran, one thread at
\* most works on a package; where the package has its row, that thread only
\* replays it, and where it has promoted files, they are its own.
FilesInv ==
    \A p \in Packages \ overtaken :
        /\ \A r, s \in Working(p) : r = s
        /\ \A r \in Working(p) :
              /\ row[p].status # "none" => pc[r] \in Replays
              /\ pc[r] \in {"mark", "archive", "remark", "publish"} => dir[p] = r
              /\ pc[r] \in {"remark", "publish"} => zip[p] = r
        /\ row[p].status # "none" => dir[p] = row[p].by /\ zip[p] = row[p].by
\* what FilesInv says of one package
PackageFiles(p) ==
    /\ \A r, s \in Working(p) : r = s
    /\ \A r \in Working(p) :
          /\ row[p].status # "none" => pc[r] \in Replays
          /\ pc[r] \in {"mark", "archive", "remark", "publish"} => dir[p] = r
          /\ pc[r] \in {"remark", "publish"} => zip[p] = r
    /\ row[p].status # "none" => dir[p] = row[p].by /\ zip[p] = row[p].by

\* a step that starts no thread for a package, moves none of its threads past a
\* guard and leaves files and row alone
Still(p) ==
    /\ dir'[p] = dir[p] /\ zip'[p] = zip[p]
    /\ row'[p].by = row[p].by
    /\ row'[p].status = "none" <=> row[p].status = "none"
    /\ \A r \in Requests :
          target'[r] = p /\ pc'[r] \in Running =>
            /\ target[r] = p /\ pc[r] \in Running
            /\ \/ pc'[r] = pc[r] \/ pc'[r] = "failing"
               \/ pc'[r] = "finish" /\ pc[r] \in Replays
               \/ /\ row[p].status = "none"
                  /\ pc'[r] \notin {"mark", "archive", "remark", "publish"}
               \/ pc'[r] = "archive" /\ pc[r] = "mark"
               \/ pc'[r] = "publish" /\ pc[r] = "remark"

LEMMA StillFiles ==
    ASSUME NEW p \in Packages, PackageFiles(p), Still(p)
    PROVE  PackageFiles(p)'
<1>1. Working(p)' \subseteq Working(p)
  BY DEF Still, Working
<1>2. \A r, s \in Working(p)' : r = s
  BY <1>1 DEF PackageFiles
<1>3. row'[p].status # "none" => dir'[p] = row'[p].by /\ zip'[p] = row'[p].by
  BY DEF PackageFiles, Still
<1>4. ASSUME NEW r \in Working(p)'
      PROVE  /\ row'[p].status # "none" => pc'[r] \in Replays
             /\ pc'[r] \in {"mark", "archive", "remark", "publish"} => dir'[p] = r
             /\ pc'[r] \in {"remark", "publish"} => zip'[p] = r
  <2>1. /\ r \in Requests /\ target'[r] = p /\ pc'[r] \in Running /\ r \in Working(p)
    BY <1>1 DEF Working
  <2>2. /\ row[p].status # "none" => pc[r] \in Replays
        /\ pc[r] \in {"mark", "archive", "remark", "publish"} => dir[p] = r
        /\ pc[r] \in {"remark", "publish"} => zip[p] = r
    BY <2>1 DEF PackageFiles
  <2>3. /\ dir'[p] = dir[p] /\ zip'[p] = zip[p]
        /\ row'[p].status = "none" <=> row[p].status = "none"
        /\ \/ pc'[r] = pc[r] \/ pc'[r] = "failing"
           \/ pc'[r] = "finish" /\ pc[r] \in Replays
           \/ /\ row[p].status = "none"
              /\ pc'[r] \notin {"mark", "archive", "remark", "publish"}
           \/ pc'[r] = "archive" /\ pc[r] = "mark"
           \/ pc'[r] = "publish" /\ pc[r] = "remark"
    BY <2>1 DEF Still
  <2>. QED BY <2>2, <2>3 DEF Replays
<1>. QED BY <1>2, <1>3, <1>4 DEF PackageFiles

\* A thread that claims a package is its only one, or the package is overtaken.
LEMMA TakeFiles ==
    ASSUME TypeInv, NEW r \in Requests, NEW q \in Packages, Take(r, q),
           NEW p \in Packages \ overtaken', PackageFiles(p)
    PROVE  PackageFiles(p)'
<1>. USE DEF TypeInv, TypeOK
<1>0. /\ target' = [target EXCEPT ![r] = q] /\ pc' = [pc EXCEPT ![r] = "claimed"]
      /\ dir' = dir /\ zip' = zip /\ row' = row /\ pc[r] = "idle"
  BY DEF Take, fileVars, episodeVars
<1>1. CASE p = q
  <2>1. Working(p) = {}
    BY <1>1 DEF Take
  <2>2. Working(p)' \subseteq {r}
    BY <1>0, <2>1 DEF Working
  <2>3. pc'[r] = "claimed"
    BY <1>0
  <2>. QED BY <1>0, <2>2, <2>3 DEF PackageFiles, Replays
<1>2. CASE p # q
  <2>1. Still(p)
    BY <1>0, <1>2 DEF Still
  <2>. QED BY <2>1, StillFiles
<1>. QED BY <1>1, <1>2

\* A step of a thread is about its package: the others stand still.
LEMMA StepFiles ==
    ASSUME TypeInv, NEW r \in Requests, Step(r), NEW p \in Packages, PackageFiles(p)
    PROVE  PackageFiles(p)'
<1>. USE DEF TypeInv, TypeOK
<1>0. /\ \A s \in Requests \ {r} : pc'[s] = pc[s] /\ target'[s] = target[s]
      /\ target'[r] \in {target[r], NoOne}
  BY DEF Forget, Step, Begin, Bind, Purge, Build, Renew, Zip, Ready, PromoteDir, Mark, PromoteZip,
     Remark, Publish, Finish, Fail, Advance, Settle, Goes, filesOnly
<1>1. pc[r] \in Running
  BY DEF Step, Begin, Bind, Purge, Build, Renew, Zip, Ready, PromoteDir, Mark, PromoteZip,
     Remark, Publish, Finish, Fail, Advance, Settle, Goes, Running, PC
<1>2. CASE target[r] # p
  <2>1. dir'[p] = dir[p] /\ zip'[p] = zip[p] /\ row'[p] = row[p]
    BY <1>2 DEF Step, Begin, Bind, Purge, Build, Renew, Zip, Ready, PromoteDir, Mark, PromoteZip,
       Remark, Publish, Finish, Fail, Advance, Settle, filesOnly, fileVars, episodeVars
  <2>2. Still(p)
    BY <1>0, <1>2, <2>1, DeliveryAssumption DEF Still
  <2>. QED BY <2>2, StillFiles
<1>3. CASE target[r] = p
  <2>0. /\ r \in Working(p) /\ Working(p) = {r}
        /\ Working(p)' \subseteq {r}
        /\ row[p].status # "none" => pc[r] \in Replays
        /\ pc[r] \in {"mark", "archive", "remark", "publish"} => dir[p] = r
        /\ pc[r] \in {"remark", "publish"} => zip[p] = r
        /\ row[p].status # "none" => dir[p] = row[p].by /\ zip[p] = row[p].by
    <3>1. r \in Working(p)
      BY <1>1, <1>3 DEF Working
    <3>2. Working(p) = {r}
      BY <3>1 DEF PackageFiles
    <3>3. Working(p)' \subseteq {r}
      BY <1>0, <3>2 DEF Working
    <3>. QED BY <3>1, <3>2, <3>3 DEF PackageFiles
  <2>. DEFINE Fit == /\ row'[p].status # "none" => pc'[r] \in Replays
                     /\ pc'[r] \in {"mark", "archive", "remark", "publish"} => dir'[p] = r
                     /\ pc'[r] \in {"remark", "publish"} => zip'[p] = r
                     /\ row'[p].status # "none" => dir'[p] = row'[p].by /\ zip'[p] = row'[p].by
  <2>1. Fit => PackageFiles(p)'
    <3>. HAVE Fit
    <3>. QED BY <2>0 DEF PackageFiles
  <2>. USE DEF Replays
  <2>2. CASE Begin(r)
    BY <1>3, <2>0, <2>1, <2>2 DEF Begin, Goes, episodeVars
  <2>3. CASE Bind(r)
    BY <1>3, <2>0, <2>1, <2>3 DEF Bind, Goes, fileVars, episodeVars
  <2>4. CASE Purge(r) \/ Build(r) \/ Renew(r) \/ Zip(r)
    BY <1>3, <2>0, <2>1, <2>4 DEF Purge, Build, Renew, Zip, Goes, filesOnly, fileVars, episodeVars
  <2>5. CASE Ready(r) \/ Mark(r) \/ Remark(r)
    BY <1>3, <2>0, <2>1, <2>5 DEF Ready, Mark, Remark, Advance, Goes, fileVars, episodeVars
  <2>6. CASE PromoteDir(r)
    BY <1>3, <2>0, <2>1, <2>6 DEF PromoteDir, Goes, filesOnly, episodeVars
  <2>7. CASE PromoteZip(r)
    BY <1>3, <2>0, <2>1, <2>7 DEF PromoteZip, Goes, filesOnly, episodeVars
  <2>8. CASE Publish(r)
    BY <1>3, <2>0, <2>1, <2>8 DEF Publish, Goes, fileVars
  <2>9. CASE Finish(r) \/ Fail(r)
    <3>1. pc'[r] = "over" /\ dir' = dir /\ zip' = zip /\ row' = row
      BY <2>9 DEF Finish, Fail, Settle, Goes, fileVars, episodeVars
    <3>2. Working(p)' = {}
      BY <2>0, <3>1 DEF Working, Running
    <3>. QED BY <2>0, <3>1, <3>2 DEF PackageFiles
  <2>. QED BY <2>2, <2>3, <2>4, <2>5, <2>6, <2>7, <2>8, <2>9 DEF Step
<1>. QED BY <1>2, <1>3

LEMMA FilesStep == TypeInv /\ FilesInv /\ [Next]_vars => FilesInv'
<1>. SUFFICES ASSUME TypeInv, FilesInv, [Next]_vars, NEW p \in Packages \ overtaken'
              PROVE  PackageFiles(p)'
  BY DEF FilesInv, PackageFiles
<1>0. p \in Packages /\ p \notin overtaken /\ PackageFiles(p)
  <2>1. overtaken \subseteq overtaken'
    BY DEF Next, Step, Begin, Bind, Purge, Build, Renew, Zip, Ready, PromoteDir, Mark, PromoteZip,
       Remark, Publish, Finish, Fail, Advance, Settle, filesOnly, Claim, Take, Resume, Approve,
       Reject, Lapse, Adopt, Rewrite, Release, ClearDownstream, Crash, reviewFrame, vars
  <2>. QED BY <2>1 DEF FilesInv, PackageFiles
<1>1. ASSUME NEW r \in Requests, Step(r) PROVE PackageFiles(p)'
  BY <1>0, <1>1, StepFiles
<1>2. ASSUME NEW r \in Requests, NEW q \in Packages, Take(r, q) PROVE PackageFiles(p)'
  BY <1>0, <1>2, TakeFiles
<1>3. ASSUME Still(p) PROVE PackageFiles(p)'
  BY <1>0, <1>3, StillFiles
<1>4. ASSUME NEW q \in Packages, Approve(q) \/ Reject(q) PROVE Still(p)
  BY <1>0, <1>4 DEF Approve, Reject, Candidate, reviewFrame, fileVars, threadVars, Still,
     TypeInv, TypeOK, Row
<1>5. CASE Adopt \/ Rewrite \/ Release \/ ClearDownstream
  <2>1. Still(p)
    BY <1>0, <1>5 DEF Adopt, Superseded, Standing, Rewrite, Release, ClearDownstream, reviewFrame, fileVars, threadVars, Still, TypeInv, TypeOK, Row
  <2>. QED BY <1>3, <2>1
<1>6. CASE Crash
  <2>1. Still(p)
    BY <1>6, DeliveryAssumption DEF Crash, Forget, fileVars, episodeVars, Still, Running
  <2>. QED BY <1>3, <2>1
<1>7. ASSUME UNCHANGED <<threadVars, fileVars, episodeVars>> PROVE Still(p)
  BY <1>7 DEF threadVars, fileVars, episodeVars, Still
<1>8. ASSUME NEW q \in Packages, Resume(q) \/ Lapse(q)
      PROVE  UNCHANGED <<threadVars, fileVars, episodeVars>> \/ \E r \in Requests : Take(r, q)
  BY <1>8 DEF Resume, Lapse
<1>9. CASE UNCHANGED vars
  BY <1>3, <1>7, <1>9 DEF vars
<1>. QED BY <1>1, <1>2, <1>3, <1>4, <1>5, <1>6, <1>7, <1>8, <1>9 DEF Next, Claim

\* Whatever was promoted, abandoned, taken over and purged, and however often
\* the process restarted: a package that has its row has the files of the
\* thread that wrote the row, and their archive.
THEOREM RowHasItsFiles == Spec => []FilesMatchRow
<1>1. Init => FilesInv
  <2>. HAVE Init
  <2>1. \A p \in Packages : Working(p) = {} /\ row[p].status = "none"
    BY DEF Init, Working, Running
  <2>. QED BY <2>1 DEF FilesInv
<1>2. FilesInv => FilesMatchRow
  BY DEF FilesInv, FilesMatchRow
<1>. QED BY <1>1, <1>2, FilesStep, TypesHold, PTL DEF Spec
=============================================================================
