--------------------------- MODULE DeliveryPackage ---------------------------
(***************************************************************************)
(* Building the delivery package of an episode.  A request claims the      *)
(* receipt of its package id and builds in a worker thread: files in a     *)
(* directory of its own, then the rename of the directory and of the       *)
(* archive to their final names, then the database row.  A request whose   *)
(* lease has run out, that failed, or whose process died is taken over by  *)
(* the next one with the same id; its thread may still be running.  The    *)
(* draft is reviewed, and retired when the adopted videos change; what      *)
(* changes the storyboard release leaves the packages as they are.         *)
(***************************************************************************)
EXTENDS Naturals

CONSTANTS Packages,     \* package ids, one per idempotency key
          Requests,     \* requests that may build; a claim names its owner by a fresh uuid
          NoOne,        \* no owner, no file, no package, no release
          MaxVersion,   \* bound: states of the adopted videos, and releases
          MaxChanges,   \* bound: changes of these
          MaxLapses,    \* bound: leases that run out
          MaxCrashes    \* bound: restarts of the process

ASSUME DeliveryAssumption ==
    /\ NoOne \notin Packages \cup Requests
    /\ {MaxVersion, MaxChanges, MaxLapses, MaxCrashes} \subseteq Nat

VARIABLES
    receipt,    \* delivery_operation_receipts
    resume,     \* the paused workflow run of a package, for recover_delivery_tasks
    pc,         \* the thread of a request
    target,     \* its package
    seen,       \* the authority its readiness check returned
    remnant,    \* the owner whose remnants it found it has to purge
    spaces,     \* workspace directories that exist, by owner
    archives,   \* workspace archives that exist, by owner
    dir,        \* whose files the final directory holds
    zip,        \* whose files the final archive holds
    row,        \* delivery_packages with its artifact
    pointer,    \* episodes.delivery_artifact_id, by its package
    delivery,   \* episodes.delivery_status
    version,    \* the adopted videos and the storyboard release, if one can be verified
    changes, lapses, crashes,
    overtaken,  \* history: packages taken over from a thread that still ran
    left        \* history: how a package stood when the authority last changed around it

fileVars    == <<spaces, archives, dir, zip>>
episodeVars == <<row, pointer, delivery, version, left, changes>>
threadVars  == <<pc, target, seen, remnant>>
boundVars   == <<lapses, crashes>>
vars == <<receipt, resume, threadVars, fileVars, episodeVars, boundVars, overtaken>>

Phases   == {"claimed", "building", "ready", "directory_promoted", "promoted"}
Promoted == {"ready", "directory_promoted", "promoted"}
PC == {"idle", "claimed", "bind", "purge", "build", "renew", "zip", "ready",
       "directory", "mark", "archive", "remark", "publish", "finish", "failing", "over"}
Running == PC \ {"idle", "over"}

Receipt == [status : {"none", "running", "succeeded", "failed"}, owner : Requests \cup {NoOne},
            live : BOOLEAN, interrupted : BOOLEAN, phase : Phases,
            oldPhase : Phases, oldSpace : Requests \cup {NoOne}, fenced : BOOLEAN]
Versions  == 0..MaxVersion
Authority == [videos : Versions, release : Versions \cup {NoOne}]
First     == [videos |-> 0, release |-> 0]
Row == [status : {"none", "waiting_human", "approved", "rejected", "superseded"},
        by : Requests \cup {NoOne}, version : Authority]

Init ==
    /\ receipt = [p \in Packages |->
                    [status |-> "none", owner |-> NoOne, live |-> FALSE, interrupted |-> FALSE,
                     phase |-> "claimed", oldPhase |-> "claimed", oldSpace |-> NoOne,
                     fenced |-> FALSE]]
    /\ resume = [p \in Packages |-> "none"]
    /\ pc = [r \in Requests |-> "idle"]
    /\ target = [r \in Requests |-> NoOne]
    /\ seen = [r \in Requests |-> First]
    /\ remnant = [r \in Requests |-> NoOne]
    /\ spaces = {} /\ archives = {}
    /\ dir = [p \in Packages |-> NoOne] /\ zip = [p \in Packages |-> NoOne]
    /\ row = [p \in Packages |-> [status |-> "none", by |-> NoOne, version |-> First]]
    /\ pointer = NoOne /\ delivery = "not_ready"
    /\ version = First /\ changes = 0 /\ lapses = 0 /\ crashes = 0
    /\ overtaken = {} /\ left = [p \in Packages |-> "none"]

-----------------------------------------------------------------------------
(* The receipt.                                                            *)

Goes(r, from, to) == pc[r] = from /\ pc' = [pc EXCEPT ![r] = to]
Mine(r) == LET c == receipt[target[r]] IN c.status = "running" /\ c.owner = r
\* _assert_delivery_operation_owner
Holds(r) == Mine(r) /\ receipt[target[r]].live

Working(p) == {r \in Requests : target[r] = p /\ pc[r] \in Running}

\* what a claim leaves in the receipt; the workspace of an owner is bound
\* with its phase "building", and kept as evidence of what it abandoned
Claimed(c, r) ==
    [status |-> "running", owner |-> r, live |-> TRUE, interrupted |-> FALSE,
     phase |-> "claimed", oldPhase |-> c.phase,
     oldSpace |-> IF c.phase = "claimed" THEN NoOne ELSE c.owner,
     fenced |-> c.interrupted \/ c.status = "failed"]

\* claim_delivery_package_operation: a receipt that succeeded is returned and
\* one that is running is refused, neither changes anything
Claimable(c) == c.status # "succeeded" /\ ~(c.status = "running" /\ c.live)

Take(r, p) ==
    /\ pc[r] = "idle" /\ Claimable(receipt[p])
    /\ receipt' = [receipt EXCEPT ![p] = Claimed(receipt[p], r)]
    /\ pc' = [pc EXCEPT ![r] = "claimed"]
    /\ target' = [target EXCEPT ![r] = p]
    /\ overtaken' = IF Working(p) = {} THEN overtaken ELSE overtaken \cup {p}
    /\ UNCHANGED <<seen, remnant, fileVars, episodeVars, boundVars>>

Claim(r, p) == Take(r, p) /\ UNCHANGED resume

\* what a request leaves out of the fingerprint its receipt is bound to, in
\* the handler and in the recovery; the handler's payload has all of these
Payload == {"idempotency_key", "request_id", "package_id", "operation_started_at", "reason"}
Bound   == Payload \ {"request_id", "operation_started_at", "package_id", "reason", "decided_by"}
Rebound == Payload \ {"request_id", "operation_started_at", "package_id"}

\* _resume_delivery_package: the claim refuses another fingerprint than the
\* receipt's, and the recovery ends there
Resume(p) ==
    /\ resume[p] = "paused"
    /\ resume' = [resume EXCEPT ![p] = "tried"]
    /\ IF Rebound = Bound /\ Claimable(receipt[p])
       THEN \E r \in Requests : Take(r, p)
       ELSE UNCHANGED <<receipt, threadVars, fileVars, episodeVars, boundVars, overtaken>>

\* the compare-and-set of a phase: an owner that was replaced fails
Advance(r, from, phase, to) ==
    /\ Goes(r, from, IF Mine(r) THEN to ELSE "failing")
    /\ receipt' = IF Mine(r) THEN [receipt EXCEPT ![target[r]].phase = phase] ELSE receipt
    /\ UNCHANGED <<resume, target, seen, remnant, fileVars, episodeVars, boundVars, overtaken>>

-----------------------------------------------------------------------------
(* build_delivery_package.                                                 *)

filesOnly == <<receipt, resume, target, seen, remnant, episodeVars, boundVars, overtaken>>

\* readiness is read first, and needs a release; a package that has its row is
\* replayed if the release is still its own, its archive rebuilt when it does
\* not match the directory
Begin(r) ==
    /\ pc[r] = "claimed"
    /\ seen' = [seen EXCEPT ![r] = version]
    /\ LET p == target[r]
           ready  == Holds(r) /\ version.release # NoOne
           intact == dir[p] = row[p].by /\ row[p].version.release = version.release
           stale  == zip[p] # dir[p]
       IN \/ /\ ~ready
             /\ Goes(r, "claimed", "failing") /\ UNCHANGED zip
          \/ /\ ready /\ row[p].status = "none"
             /\ Goes(r, "claimed", "bind") /\ UNCHANGED zip
          \/ /\ ready /\ row[p].status # "none"
             /\ IF intact /\ (stale => row[p].status = "waiting_human")
                THEN Goes(r, "claimed", "finish") /\ zip' = [zip EXCEPT ![p] = dir[p]]
                ELSE Goes(r, "claimed", "failing") /\ UNCHANGED zip
    /\ UNCHANGED <<receipt, resume, target, remnant, spaces, archives, dir, episodeVars, boundVars, overtaken>>

\* what the receipt says of a predecessor that is known to be gone
Remnant(c) == IF c.fenced /\ c.oldPhase \in Promoted THEN c.oldSpace ELSE NoOne

\* _resolve_delivery_workspace_dir
Bind(r) ==
    LET p == target[r]
        old == IF Mine(r) THEN Remnant(receipt[p]) ELSE NoOne
    IN  /\ Goes(r, "bind", CASE ~Mine(r) -> "failing" [] old # NoOne -> "purge" [] OTHER -> "build")
        /\ receipt' = IF Mine(r) THEN [receipt EXCEPT ![p].phase = "building"] ELSE receipt
        /\ remnant' = [remnant EXCEPT ![r] = old]
        /\ UNCHANGED <<resume, target, seen, fileVars, episodeVars, boundVars, overtaken>>

\* _purge_startup_fenced_delivery_remnants: the final names, whoever took
\* them, and the workspace that was abandoned
Purge(r) ==
    /\ Goes(r, "purge", "build")
    /\ dir' = [dir EXCEPT ![target[r]] = NoOne]
    /\ zip' = [zip EXCEPT ![target[r]] = NoOne]
    /\ spaces' = spaces \ {remnant[r]}
    /\ archives' = archives \ {remnant[r]}
    /\ UNCHANGED filesOnly

\* the files of the package, written to the workspace
Build(r) ==
    /\ Goes(r, "build", "renew")
    /\ spaces' = spaces \cup {r}
    /\ UNCHANGED <<archives, dir, zip, filesOnly>>

\* _renew_delivery_operation_owner: the lease may have run out
Renew(r) ==
    /\ Goes(r, "renew", IF Mine(r) THEN "zip" ELSE "failing")
    /\ receipt' = IF Mine(r) THEN [receipt EXCEPT ![target[r]].live = TRUE] ELSE receipt
    /\ UNCHANGED <<resume, target, seen, remnant, fileVars, episodeVars, boundVars, overtaken>>

\* the archive, after a look at the authority
Zip(r) ==
    LET fit == seen[r] = version /\ r \in spaces
    IN  /\ Goes(r, "zip", IF fit THEN "ready" ELSE "failing")
        /\ archives' = IF fit THEN archives \cup {r} ELSE archives
        /\ UNCHANGED <<spaces, dir, zip, filesOnly>>

Ready(r) == Advance(r, "ready", "ready", "directory")

\* Mutation: the row is committed before the archive has its final name
PromoteDirLast(r) ==
    LET p == target[r]
        free == dir[p] = NoOne /\ zip[p] = NoOne /\ r \in spaces
    IN  /\ Goes(r, "directory", IF free THEN "publish" ELSE "failing")
        /\ dir' = IF free THEN [dir EXCEPT ![p] = r] ELSE dir
        /\ spaces' = IF free THEN spaces \ {r} ELSE spaces
        /\ UNCHANGED <<archives, zip, filesOnly>>

\* refused when a final name is taken, whoever took it
PromoteDir(r) ==
    LET p == target[r]
        free == dir[p] = NoOne /\ zip[p] = NoOne /\ r \in spaces
    IN  /\ Goes(r, "directory", IF free THEN "mark" ELSE "failing")
        /\ dir' = IF free THEN [dir EXCEPT ![p] = r] ELSE dir
        /\ spaces' = IF free THEN spaces \ {r} ELSE spaces
        /\ UNCHANGED <<archives, zip, filesOnly>>

Mark(r) == Advance(r, "mark", "directory_promoted", "archive")

\* the rename replaces an archive that is there
PromoteZip(r) ==
    LET found == r \in archives
    IN  /\ Goes(r, "archive", IF found THEN "remark" ELSE "failing")
        /\ zip' = IF found THEN [zip EXCEPT ![target[r]] = r] ELSE zip
        /\ archives' = archives \ {r}
        /\ UNCHANGED <<spaces, dir, filesOnly>>

Remark(r) == Advance(r, "remark", "promoted", "publish")

\* Mutation: the authority is looked at before the archive is made, not at publication
PublishUnchecked(r) ==
    LET p == target[r]
        fit == Holds(r) /\ row[p].status = "none"
    IN  /\ Goes(r, "publish", IF fit THEN "finish" ELSE "failing")
        /\ IF fit
           THEN /\ row' = [row EXCEPT ![p] = [status |-> "waiting_human", by |-> r,
                                              version |-> seen[r]]]
                /\ pointer' = p
                /\ delivery' = "waiting_human"
           ELSE UNCHANGED <<row, pointer, delivery>>
        /\ UNCHANGED <<receipt, resume, target, seen, remnant, fileVars, version, left, changes, boundVars, overtaken>>

\* _commit_delivery_package_publication, one transaction
Publish(r) ==
    LET p == target[r]
        fit == seen[r] = version /\ Holds(r) /\ row[p].status = "none"
    IN  /\ Goes(r, "publish", IF fit THEN "finish" ELSE "failing")
        /\ IF fit
           THEN /\ row' = [row EXCEPT ![p] = [status |-> "waiting_human", by |-> r,
                                              version |-> seen[r]]]
                /\ pointer' = p
                /\ delivery' = "waiting_human"
           ELSE UNCHANGED <<row, pointer, delivery>>
        /\ UNCHANGED <<receipt, resume, target, seen, remnant, fileVars, version, left, changes, boundVars, overtaken>>

\* threads end, with what they knew
Forget(ended) ==
    /\ target' = [r \in Requests |-> IF r \in ended THEN NoOne ELSE target[r]]
    /\ seen' = [r \in Requests |-> IF r \in ended THEN First ELSE seen[r]]
    /\ remnant' = [r \in Requests |-> IF r \in ended THEN NoOne ELSE remnant[r]]

\* finish_delivery_package_operation, for the result and for an exception;
\* a compare-and-set that fails is swallowed
Settle(r, from, status) ==
    /\ Goes(r, from, "over")
    /\ receipt' = IF Mine(r)
                  THEN [receipt EXCEPT ![target[r]].status = status, ![target[r]].live = FALSE]
                  ELSE receipt
    /\ Forget({r})
    /\ UNCHANGED <<resume, fileVars, episodeVars, boundVars, overtaken>>

Finish(r) == Settle(r, "finish", "succeeded")
Fail(r)   == Settle(r, "failing", "failed")

-----------------------------------------------------------------------------
(* Review and retirement of the draft.                                     *)

reviewFrame == <<receipt, resume, threadVars, fileVars, boundVars, overtaken>>

\* the draft the episode points at
Candidate(p) == row[p].status = "waiting_human" /\ pointer = p /\ delivery = "waiting_human"
\* _delivery_approval_snapshot: files, archive and authority against the row
Verified(p) == dir[p] = row[p].by /\ zip[p] = dir[p] /\ row[p].version = version

Approve(p) ==
    /\ Candidate(p) /\ Verified(p)
    /\ row' = [q \in Packages |->
                CASE q = p -> [row[q] EXCEPT !.status = "approved"]
                  [] q # p /\ row[q].status = "approved" -> [row[q] EXCEPT !.status = "superseded"]
                  [] OTHER -> row[q]]
    /\ delivery' = "approved"
    /\ UNCHANGED <<pointer, version, left, changes, reviewFrame>>

\* Mutation: any draft that waits may be refused
RejectAnyDraft(p) ==
    /\ row[p].status = "waiting_human"
    /\ row' = [row EXCEPT ![p].status = "rejected"]
    /\ delivery' = "rejected"
    /\ UNCHANGED <<pointer, version, left, changes, reviewFrame>>

Reject(p) ==
    /\ Candidate(p)
    /\ row' = [row EXCEPT ![p].status = "rejected"]
    /\ delivery' = "rejected"
    /\ UNCHANGED <<pointer, version, left, changes, reviewFrame>>

Standing(p) == row[p].status \in {"waiting_human", "approved"}
Superseded  == [p \in Packages |->
                  IF Standing(p) THEN [row[p] EXCEPT !.status = "superseded"] ELSE row[p]]

Change(outcomes) == changes < MaxChanges /\ changes' = changes + 1 /\ version' \in outcomes

\* Mutation: the episode gets the status of its package
AdoptMarksEpisode ==
    /\ Change({[version EXCEPT !.videos = v] : v \in Versions})
    /\ row' = Superseded
    /\ pointer' = NoOne
    /\ delivery' = "superseded"
    /\ UNCHANGED <<left, reviewFrame>>

\* the adopted videos change, by an adoption, its withdrawal or the loss of a
\* version, with invalidate_episode_delivery_authority in the transaction
Adopt ==
    /\ Change({[version EXCEPT !.videos = v] : v \in Versions})
    /\ row' = Superseded
    /\ pointer' = NoOne
    /\ delivery' = "not_ready"
    /\ UNCHANGED <<left, reviewFrame>>

\* history: the authority changes and the rows stay as they are
LeaveRows == left' = [p \in Packages |-> IF Standing(p) THEN row[p].status ELSE "none"]

\* the storyboard is published again or edited, which ends its release, or its
\* shots are deleted: nothing of the delivery is written
Rewrite ==
    /\ Change({[version EXCEPT !.videos = v] : v \in Versions}
              \cup {[version EXCEPT !.release = x] : x \in Versions \cup {NoOne}})
    /\ version' # version
    /\ LeaveRows
    /\ UNCHANGED <<row, pointer, delivery, reviewFrame>>

\* the next release after one that ended; bounded by the changes that end one
Release ==
    /\ version.release = NoOne
    /\ \E v \in Versions : version' = [version EXCEPT !.release = v]
    /\ LeaveRows
    /\ UNCHANGED <<row, pointer, delivery, changes, reviewFrame>>

\* a screenplay is published with clear_downstream: the episode lets go of its
\* release and of its package, the packages stay as they are
ClearDownstream ==
    /\ Change({[version EXCEPT !.release = NoOne]})
    /\ LeaveRows
    /\ pointer' = NoOne
    /\ delivery' = "not_ready"
    /\ UNCHANGED <<row, reviewFrame>>

-----------------------------------------------------------------------------
(* Time and restarts.                                                      *)

\* _DELIVERY_OPERATION_LEASE_S has passed since the claim or the renewal
Lapse(p) ==
    /\ lapses < MaxLapses
    /\ receipt[p].status = "running" /\ receipt[p].live
    /\ receipt' = [receipt EXCEPT ![p].live = FALSE]
    /\ lapses' = lapses + 1
    /\ UNCHANGED <<resume, threadVars, fileVars, episodeVars, crashes, overtaken>>

\* the threads are gone; the process that recovers fences the running
\* receipts and pauses their workflow runs
Crash ==
    /\ crashes < MaxCrashes
    /\ crashes' = crashes + 1
    /\ pc' = [r \in Requests |-> IF pc[r] \in Running THEN "over" ELSE pc[r]]
    /\ receipt' = [p \in Packages |->
                    IF receipt[p].status = "running"
                    THEN [receipt[p] EXCEPT !.live = FALSE, !.interrupted = TRUE]
                    ELSE receipt[p]]
    /\ resume' = [p \in Packages |-> IF Working(p) # {} THEN "paused" ELSE resume[p]]
    /\ Forget({r \in Requests : pc[r] \in Running})
    /\ UNCHANGED <<fileVars, episodeVars, lapses, overtaken>>

-----------------------------------------------------------------------------
Step(r) == \/ Begin(r) \/ Bind(r) \/ Purge(r) \/ Build(r) \/ Renew(r) \/ Zip(r)
           \/ Ready(r) \/ PromoteDir(r) \/ Mark(r) \/ PromoteZip(r) \/ Remark(r)
           \/ Publish(r) \/ Finish(r) \/ Fail(r)

Next == \/ \E r \in Requests : Step(r) \/ \E p \in Packages : Claim(r, p)
        \/ \E p \in Packages : Resume(p) \/ Approve(p) \/ Reject(p) \/ Lapse(p)
        \/ Adopt \/ Rewrite \/ Release \/ ClearDownstream \/ Crash

\* a thread runs on, and startup recovery resumes every paused run once
Fairness == /\ \A r \in Requests : WF_vars(Step(r))
            /\ \A p \in Packages : WF_vars(Resume(p))

Spec == Init /\ [][Next]_vars /\ Fairness

=============================================================================
