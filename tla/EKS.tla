-------------------------------- MODULE EKS --------------------------------
(***************************************************************************)
(* The AWS side, external to the repository, as the operator uses it: one  *)
(* managed nodegroup with its release, the Kubernetes minor of its         *)
(* cluster, the release SSM recommends, and the nodegroup's updates, of    *)
(* which EKS runs one at a time (a second UpdateNodegroupVersion is        *)
(* refused with ResourceInUseException).                                   *)
(***************************************************************************)
EXTENDS Upgrade

CONSTANTS MinMinor, MaxMinor   \* bound: the minors the cluster passes through

ASSUME MinorAssumption == MinMinor \in Nat /\ MaxMinor \in Nat /\ MinMinor <= MaxMinor

VARIABLES
  ngRelease,  \* Nodegroup.ReleaseVersion, as DescribeNodegroup reports it
  latest,     \* the release the SSM parameter recommends
  minor,      \* Cluster.Version, its minor
  updates     \* the nodegroup's updates by id

eksVars == <<ngRelease, latest, minor, updates>>

Minor == MinMinor..MaxMinor

Update == [status : {"None", "InProgress"} \cup Outcome,
           target : Release \cup {NoRelease},
           owner  : {"none", "operator", "other"}]

NotIssued == [status |-> "None", target |-> NoRelease, owner |-> "none"]

EKSTypeOK ==
  /\ ngRelease \in Release
  /\ latest \in Release
  /\ minor \in Minor
  /\ updates \in [UpdateId -> Update]

EKSInit ==
  /\ ngRelease = 1
  /\ latest \in Release
  /\ minor = MinMinor
  /\ updates = [id \in UpdateId |-> NotIssued]

Busy == \E id \in UpdateId : updates[id].status = "InProgress"

\* Update ids are fresh: the next one is the least that was never issued.
NextId(id) ==
  /\ updates[id].status = "None"
  /\ \A other \in UpdateId : other < id => updates[other].status # "None"

\* UpdateNodegroupVersion is accepted: a managed release, and no update running.
StartUpdate(id, release, owner) ==
  /\ ~Busy
  /\ NextId(id)
  /\ release \in Release
  /\ updates' = [updates EXCEPT ![id] =
                   [status |-> "InProgress", target |-> release, owner |-> owner]]
  /\ UNCHANGED <<ngRelease, latest, minor>>

\* EKS refuses UpdateNodegroupVersion without any fault: another update is
\* running, the release is not one of the family's, or the bound is reached.
RefusesUpdate(release) ==
  Busy \/ release \notin Release \/ \A id \in UpdateId : updates[id].status # "None"

\* A running update ends; only a successful one changes the nodegroup.
CompleteUpdate(id, outcome) ==
  /\ updates[id].status = "InProgress"
  /\ updates' = [updates EXCEPT ![id].status = outcome]
  /\ ngRelease' = IF outcome = "Successful" THEN updates[id].target ELSE ngRelease
  /\ UNCHANGED <<latest, minor>>

\* AWS publishes a newer release.
NewRelease ==
  /\ latest < MaxRelease
  /\ latest' = latest + 1
  /\ UNCHANGED <<ngRelease, minor, updates>>

\* The cluster's control plane is upgraded by one minor.
UpgradeCluster ==
  /\ minor < MaxMinor
  /\ minor' = minor + 1
  /\ UNCHANGED <<ngRelease, latest, updates>>
=============================================================================
