------------------------------- MODULE Fleet -------------------------------
(***************************************************************************)
(* The nodegroups of one cluster, a policy each, and the gauge they share: *)
(* outdated_nodegroups is labelled by cluster only.  Reconcile sets it to  *)
(* zero before every policy's ProcessUpgrade, handleNotInFlight sets it to *)
(* zero for a compliant nodegroup and adds one for an outdated one, and a  *)
(* pass that only follows an update leaves it at the reset.  One worker    *)
(* does one policy after the other.                                        *)
(***************************************************************************)
EXTENDS FiniteSets, Integers

CONSTANT NodeGroups

VARIABLES
  behind,    \* the nodegroups that do not run the recommended release
  updating,  \* those whose update the operator follows
  found,     \* those that the last look at each found outdated
  working,   \* the policy whose pass is between the reset and the assessment
  outdated   \* the gauge

vars == <<behind, updating, found, working, outdated>>

TypeOK ==
  /\ behind \subseteq NodeGroups /\ updating \subseteq NodeGroups
  /\ found \subseteq NodeGroups
  /\ working \subseteq NodeGroups
  /\ outdated \in 0..Cardinality(NodeGroups)

Init ==
  /\ behind \in SUBSET NodeGroups
  /\ updating = {}
  /\ found = {}
  /\ working = {}
  /\ outdated = 0

\* The reads of a pass are done: the count is reset.
Reset(n) ==
  /\ working = {}
  /\ working' = {n}
  /\ outdated' = 0
  /\ UNCHANGED <<behind, updating, found>>

\* handleNotInFlight, compliant: the count of the whole cluster is zero.
FindCompliant(n) ==
  /\ working = {n} /\ n \notin updating /\ n \notin behind
  /\ working' = {}
  /\ found' = found \ {n}
  /\ outdated' = 0
  /\ UNCHANGED <<behind, updating>>

\* handleNotInFlight, outdated; an update may be started.
FindOutdated(n) ==
  /\ working = {n} /\ n \notin updating /\ n \in behind
  /\ working' = {}
  /\ found' = found \cup {n}
  /\ outdated' = outdated + 1
  /\ updating' \in {updating, updating \cup {n}}
  /\ UNCHANGED behind

\* trackInFlightUpdate: the gauge is not touched again.
Follow(n) ==
  /\ working = {n} /\ n \in updating
  /\ working' = {}
  /\ \/ UNCHANGED <<behind, updating>>
     \/ updating' = updating \ {n} /\ behind' \in {behind, behind \ {n}}
  /\ UNCHANGED <<found, outdated>>

\* AWS publishes a release for n.
Publish(n) ==
  /\ n \notin behind
  /\ behind' = behind \cup {n}
  /\ UNCHANGED <<updating, found, working, outdated>>

Next ==
  \E n \in NodeGroups :
    Reset(n) \/ FindCompliant(n) \/ FindOutdated(n) \/ Follow(n) \/ Publish(n)

Spec == Init /\ [][Next]_vars

------------------------------------------------------------------------------
(* Properties *)

\* Between passes the gauge is the number of nodegroups found outdated.
OutdatedCounted == working = {} => outdated = Cardinality(found)
=============================================================================
