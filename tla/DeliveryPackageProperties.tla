---------------------- MODULE DeliveryPackageProperties ----------------------
(* What the delivery package promises.                                     *)
EXTENDS DeliveryPackage, FiniteSets

\* The receipts, threads, files and rows have their types, a running receipt
\* has an owner, and the evidence of a promotion names the workspace.
TypeOK ==
    /\ receipt \in [Packages -> Receipt]
    /\ resume \in [Packages -> {"none", "paused", "tried"}]
    /\ pc \in [Requests -> PC]
    /\ target \in [Requests -> Packages \cup {NoOne}]
    /\ seen \in [Requests -> Authority]
    /\ remnant \in [Requests -> Requests \cup {NoOne}]
    /\ spaces \subseteq Requests /\ archives \subseteq Requests
    /\ dir \in [Packages -> Requests \cup {NoOne}]
    /\ zip \in [Packages -> Requests \cup {NoOne}]
    /\ row \in [Packages -> Row]
    /\ pointer \in Packages \cup {NoOne}
    /\ delivery \in {"not_ready", "waiting_human", "approved", "rejected"}
    /\ version \in Authority
    /\ changes \in 0..MaxChanges /\ lapses \in 0..MaxLapses /\ crashes \in 0..MaxCrashes
    /\ overtaken \subseteq Packages
    /\ left \in [Packages -> {"none", "waiting_human", "approved"}]
    /\ \A p \in Packages : LET c == receipt[p] IN
        /\ c.status = "running" => c.owner # NoOne
        /\ c.oldPhase \in Promoted => c.oldSpace # NoOne

\* A package that has its row has exactly the files of the thread that wrote
\* the row, and their archive, whatever was promoted, abandoned and purged
\* before it or is purged by a later owner: unless the lease was taken from a
\* thread that still ran, the only case the code cannot rule out.
FilesMatchRow ==
    \A p \in Packages :
        row[p].status # "none" /\ p \notin overtaken => dir[p] = row[p].by /\ zip[p] = row[p].by

\* At most one package of the episode is approved.  What is approved, or waits
\* to be, was built from the videos and the release there are now, or it stands
\* as the last change left it that retires no package: a publication of the
\* storyboard or of the screenplay, an edit, the deletion of shots.  So an
\* adoption leaves no package standing, a build that started before any change
\* does not publish after it, and a draft that a change left waiting is not
\* approved.
OneCurrentApproval ==
    /\ Cardinality({p \in Packages : row[p].status = "approved"}) <= 1
    /\ \A p \in Packages : Standing(p) => row[p].version = version \/ row[p].status = left[p]

\* The episode points at a package exactly while its delivery status is that
\* package's: publication, review and retirement move both, and a draft that
\* another one replaced is never reviewed into the episode.
EpisodeFollowsPackage ==
    /\ pointer = NoOne <=> delivery = "not_ready"
    /\ pointer # NoOne => row[pointer].status = delivery

\* "Resume file-building HTTP tasks whose client connection died on restart"
\* (orchestration/api.py, recover_delivery_tasks): the build that a restart
\* interrupted is claimed again, or had been published.  (When the model has
\* no request left it cannot be.)
InterruptedBuildResumes ==
    \A p \in Packages :
        resume[p] = "paused" ~> \/ receipt[p].status = "succeeded" \/ ~receipt[p].interrupted
                               \/ \A r \in Requests : pc[r] # "idle"
=============================================================================
