------------------------------ MODULE Upgrade ------------------------------
(***************************************************************************)
(* The status machine of a NodeGroupUpgradePolicy: what one pass of        *)
(* ProcessUpgrade (internal/upgrade/upgrade.go) does to policy.Status.     *)
(* Every branch of the code is one operator from the status it finds to    *)
(* the status it hands to Status().Update.                                 *)
(*                                                                         *)
(* Data: a release version is a number ("" is NoRelease), an EKS update id *)
(* is a number ("" is NoUpdate).  LastUpgradeAttempt keeps only what the   *)
(* six hour cooldown of scheduler.ShouldSkip reads of it: never attempted, *)
(* attempted less than six hours ago, or earlier.  UpdateErrors keeps the  *)
(* id of the update whose DescribeUpdate gave them (NoUpdate: there are    *)
(* none), and the two conditions, which the code sets together, are one    *)
(* field with their common reason.  LastChecked, LastProgressCheck and the *)
(* schedule stamps are left out: no branch of the upgrade logic reads them.*)
(***************************************************************************)
EXTENDS Integers

CONSTANTS
  MaxRelease,   \* bound: how many AMI releases are ever published
  MaxUpdates    \* bound: how many updates EKS ever starts

ASSUME ReleaseAssumption == MaxRelease \in Nat \ {0}
ASSUME UpdateAssumption == MaxUpdates \in Nat \ {0}

Release == 1..MaxRelease
NoRelease == 0
UpdateId == 1..MaxUpdates
NoUpdate == 0

Outcome == {"Successful", "Failed", "Cancelled"}

Status ==
  [upgradeStatus      : {"", "InProgress", "Succeeded", "Failed", "Skipped"},
   updateID           : UpdateId \cup {NoUpdate},
   updateStatus       : {"", "InProgress"} \cup Outcome,
   currentAmi         : Release \cup {NoRelease},
   targetAmi          : Release \cup {NoRelease},
   lastUpgradeAttempt : {"never", "recent", "past"},
   updateErrors       : UpdateId \cup {NoUpdate},
   conditions         : {"unset", "UnsupportedAMI"}]

\* The status of a policy no reconcile has written yet.
EmptyStatus ==
  [upgradeStatus |-> "", updateID |-> NoUpdate, updateStatus |-> "",
   currentAmi |-> NoRelease, targetAmi |-> NoRelease,
   lastUpgradeAttempt |-> "never", updateErrors |-> NoUpdate,
   conditions |-> "unset"]

\* isInFlight, and the guard at the head of trackInFlightUpdate.
InFlight(s) == s.upgradeStatus = "InProgress" /\ s.updateID # NoUpdate

\* The fields ProcessUpgrade overwrites whatever happens next.
BeginProcess(s, current, latest) ==
  [s EXCEPT !.currentAmi = current, !.targetAmi = latest]

\* Mutant: EKS's status is copied into upgradeStatus as it is.
TrackCopiesStatus(s, reported) ==
  [s EXCEPT !.updateStatus = reported, !.upgradeStatus = reported]

\* Mutant: a success does not clear the errors of the update before it.
TrackKeepsErrors(s, reported) ==
  [s EXCEPT !.updateStatus = reported,
            !.upgradeStatus = CASE reported = "Successful" -> "Succeeded"
                                [] reported \in {"Failed", "Cancelled"} -> "Failed"
                                [] OTHER -> @,
            !.updateErrors = IF reported \in {"Failed", "Cancelled"} THEN s.updateID ELSE @]

\* DescribeUpdate answered: what EKS reports is persisted, and a terminal
\* outcome ends the tracking.  The errors are replaced by the update's own only then.
TrackInFlightUpdate(s, reported) ==
  [s EXCEPT !.updateStatus = reported,
            !.upgradeStatus = CASE reported = "Successful" -> "Succeeded"
                                [] reported \in {"Failed", "Cancelled"} -> "Failed"
                                [] OTHER -> @,
            !.updateErrors = CASE reported = "Successful" -> NoUpdate
                               [] reported \in {"Failed", "Cancelled"} -> s.updateID
                               [] OTHER -> @]

\* The nodegroup runs the recommended release.
Compliant(s) == [s EXCEPT !.upgradeStatus = "Succeeded"]

\* Outdated, but spec.autoUpgrade is off.
SkipUpgrade(s) == [s EXCEPT !.upgradeStatus = "Skipped"]

\* UpdateNodegroupVersion returned an error.
InitiationFailed(s) ==
  [s EXCEPT !.lastUpgradeAttempt = "recent", !.upgradeStatus = "Failed"]

\* Mutant: the status of the previous update is not reset.
InitiatedWithoutReset(s, id) ==
  [s EXCEPT !.lastUpgradeAttempt = "recent", !.upgradeStatus = "InProgress",
            !.updateID = id]

\* Mutant: the attempt is not stamped.
InitiatedUnstamped(s, id) ==
  [s EXCEPT !.upgradeStatus = "InProgress", !.updateID = id,
            !.updateStatus = "InProgress"]

\* UpdateNodegroupVersion returned update id.
Initiated(s, id) ==
  [s EXCEPT !.lastUpgradeAttempt = "recent", !.upgradeStatus = "InProgress",
            !.updateID = id, !.updateStatus = "InProgress"]

\* The ErrAL2UnsupportedOnCluster branch of resolveLatestOrRequeue: the only
\* one that sets conditions.
UnsupportedAMI(s) ==
  [s EXCEPT !.upgradeStatus = "Skipped", !.conditions = "UnsupportedAMI"]

\* Six hours after the last attempt, time.Since passes minInterval.
Aged(s) ==
  [s EXCEPT !.lastUpgradeAttempt = IF @ = "recent" THEN "past" ELSE @]
=============================================================================
