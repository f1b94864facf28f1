-------------------------- MODULE UpgradeLifecycle --------------------------
(***************************************************************************)
(* What the operator promises about the life of the updates it reports,    *)
(* whoever reconciles, however stale the copy it works on, and whatever is *)
(* lost on the way: a policy takes up an update at most once and never     *)
(* goes back to an older one, lets go of it only with the outcome EKS gave *)
(* it (or because the nodegroup's AMI is unsupported), and reports that    *)
(* outcome truly.                                                          *)
(***************************************************************************)
EXTENDS Integers

CONSTANTS UpdateId, NoUpdate, Outcome

VARIABLES
  phase,   \* what the stored policy reports; "absent" when there is none
  id,      \* the update it names
  ups      \* EKS's updates: "None", "InProgress" or their outcome

vars == <<phase, id, ups>>

Settled == {"new", "Succeeded", "Failed", "Skipped"}

Init ==
  /\ phase = "new"
  /\ id = NoUpdate
  /\ ups = [u \in UpdateId |-> "None"]

\* EKS starts and finishes updates, asked by the operator or by others.
Issue(u) ==
  /\ ups[u] = "None"
  /\ ups' = [ups EXCEPT ![u] = "InProgress"]
  /\ UNCHANGED <<phase, id>>

Settle(u) ==
  /\ ups[u] = "InProgress"
  /\ \E outcome \in Outcome : ups' = [ups EXCEPT ![u] = outcome]
  /\ UNCHANGED <<phase, id>>

\* The policy takes up an update that EKS did start, newer than any before.
Track(u) ==
  /\ phase \in Settled
  /\ u > id /\ ups[u] # "None"
  /\ phase' = "InProgress"
  /\ id' = u
  /\ UNCHANGED ups

\* It reports how the update ended.
Conclude ==
  /\ phase = "InProgress"
  /\ \/ ups[id] = "Successful" /\ phase' = "Succeeded"
     \/ ups[id] \in Outcome \ {"Successful"} /\ phase' = "Failed"
  /\ UNCHANGED <<id, ups>>

\* The nodegroup turned out to be on an AMI type AWS no longer publishes.
Abandon ==
  /\ phase = "InProgress"
  /\ phase' = "Skipped"
  /\ UNCHANGED <<id, ups>>

\* Between updates: compliant, failed to start one, or not allowed to.
Assess ==
  /\ phase \in Settled
  /\ phase' \in {"Succeeded", "Failed", "Skipped"}
  /\ UNCHANGED <<id, ups>>

\* The policy is deleted, and perhaps created again.
Remove ==
  /\ phase # "absent"
  /\ phase' = "absent"
  /\ id' = NoUpdate
  /\ UNCHANGED ups

Create ==
  /\ phase = "absent"
  /\ phase' = "new"
  /\ UNCHANGED <<id, ups>>

Next ==
  \/ \E u \in UpdateId : Issue(u) \/ Settle(u) \/ Track(u)
  \/ Conclude \/ Abandon \/ Assess \/ Remove \/ Create

Spec == Init /\ [][Next]_vars
=============================================================================
