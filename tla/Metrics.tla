------------------------------ MODULE Metrics ------------------------------
(***************************************************************************)
(* What a replica's /metrics endpoint shows while it reconciles:           *)
(* Reconciler with the gauges and counters of internal/metrics, each set   *)
(* by the step whose code sets it.  A registry lives in the process, so a  *)
(* crash empties it.  ProcessUpgrade sets its first gauges before it calls *)
(* EKS, and they can be scraped meanwhile: Begin is a step of its own.     *)
(*                                                                         *)
(* outdated_nodegroups, which the nodegroups of a cluster share, is in     *)
(* Fleet; last_checked_timestamp and next_run_seconds are left out.        *)
(***************************************************************************)
EXTENDS Reconciler

CONSTANT MaxCount   \* bound: how far a counter goes

ASSUME CountAssumption == MaxCount \in Nat

VARIABLES
  metrics,  \* each replica's registry, for the policy's cluster and nodegroup
  begun     \* the replica has set the first gauges of ProcessUpgrade

meterVars == <<metrics, begun>>
meteredVars == <<vars, meterVars>>

Count == 0..MaxCount

\* A gauge that was never set is not exported ("none"); update_status is the
\* set of its label values that are 1.
Registry ==
  [updateStatus : SUBSET {"idle", "in_progress", "successful", "failed", "cancelled"},
   inflight     : {"none", "zero", "positive"},
   compliance   : {"none", "compliant", "not"},
   success : Count, failed : Count, skipped : Count, deleted : Count]

NewRegistry ==
  [updateStatus |-> {}, inflight |-> "none", compliance |-> "none",
   success |-> 0, failed |-> 0, skipped |-> 0, deleted |-> 0]

MetricsTypeOK ==
  /\ metrics \in [Replica -> Registry]
  /\ begun \in [Replica -> BOOLEAN]

MeteredInit ==
  /\ Init
  /\ metrics = [r \in Replica |-> NewRegistry]
  /\ begun = [r \in Replica |-> FALSE]

------------------------------------------------------------------------------
\* What each branch does to a registry.

\* update_status has this label value at 1 from now on.
Lit(m, status) == [m EXCEPT !.updateStatus = @ \cup {status}]

BeginMetrics(m) == [Lit(m, "idle") EXCEPT !.inflight = "zero"]

\* In progress still, or DescribeUpdate failed.
RunningMetrics(m) == [Lit(m, "in_progress") EXCEPT !.inflight = "positive"]

\* Mutant: the compliance gauge is left as it was before the update.
SuccessUngauged(m) == [Lit(m, "successful") EXCEPT !.inflight = "zero"]

SuccessMetrics(m) ==
  [Lit(m, "successful") EXCEPT !.inflight = "zero", !.compliance = "compliant"]

FailureMetrics(m, status) ==
  [Lit(m, status) EXCEPT !.inflight = "zero", !.compliance = "not", !.failed = @ + 1]

CompliantMetrics(m) == [Lit(m, "idle") EXCEPT !.inflight = "zero", !.compliance = "compliant"]

SkippedMetrics(m) ==
  [Lit(m, "idle") EXCEPT !.inflight = "zero", !.compliance = "not", !.skipped = @ + 1]

InitiationFailedMetrics(m) ==
  [Lit(m, "failed") EXCEPT !.inflight = "zero", !.compliance = "not", !.failed = @ + 1]

InitiatedMetrics(m) ==
  [Lit(m, "in_progress") EXCEPT !.inflight = "zero", !.compliance = "not", !.success = @ + 1]

UnsupportedMetrics(m) == [m EXCEPT !.compliance = "not", !.skipped = @ + 1]

\* Mutant: EKS's word for the outcome is used as the label value.
TrackedInEKSWords(m, reported) ==
  CASE reported = "Successful" -> SuccessMetrics(m)
    [] reported \in {"Failed", "Cancelled"} -> FailureMetrics(m, reported)
    [] OTHER -> RunningMetrics(m)

TrackedMetrics(m, reported) ==
  CASE reported = "Successful" -> SuccessMetrics(m)
    [] reported = "Failed" -> FailureMetrics(m, "failed")
    [] reported = "Cancelled" -> FailureMetrics(m, "cancelled")
    [] OTHER -> RunningMetrics(m)

------------------------------------------------------------------------------
\* Reconciler's steps with what they set.

Emit(r, m) ==
  /\ {m.success, m.failed, m.skipped, m.deleted} \subseteq Count
  /\ metrics' = [metrics EXCEPT ![r] = m]

\* DeletedPolicies, before the Update that removes the finalizer, whether or not
\* that succeeds: it counts attempts.
CountDeletion(r) == Emit(r, [metrics[r] EXCEPT !.deleted = @ + 1])

LetsGo(r) ==
  /\ RemoveFinalizer(r)
  /\ CountDeletion(r)
  /\ UNCHANGED begun

LetsGoInVain(r) ==
  /\ pc[r] = "removeFinalizer"
  /\ FinalizerError(r)
  /\ CountDeletion(r)
  /\ UNCHANGED begun

Unsupported(r) ==
  /\ ResolveUnsupported(r)
  /\ Emit(r, UnsupportedMetrics(metrics[r]))
  /\ UNCHANGED begun

\* The first lines of ProcessUpgrade.
Begin(r) ==
  /\ pc[r] = "process" /\ ~begun[r]
  /\ begun' = [begun EXCEPT ![r] = TRUE]
  /\ Emit(r, BeginMetrics(metrics[r]))
  /\ UNCHANGED vars

\* ProcessUpgrade has called EKS, or needs no call.
Decide(r) ==
  /\ begun[r]
  /\ begun' = [begun EXCEPT ![r] = FALSE]
  /\ \/ /\ Poll(r)
        /\ Emit(r, TrackedMetrics(metrics[r], updates[obj[r].status.updateID].status))
     \/ PollError(r) /\ Emit(r, RunningMetrics(metrics[r]))
     \/ /\ Assess(r)
        /\ Emit(r, IF Outdated(r) THEN SkippedMetrics(metrics[r]) ELSE CompliantMetrics(metrics[r]))
     \/ Initiate(r) /\ Emit(r, InitiatedMetrics(metrics[r]))
     \/ /\ InitiateUnanswered(r) \/ InitiateRefused(r)
        /\ Emit(r, InitiationFailedMetrics(metrics[r]))

\* The process is gone, and its registry with it.
Dies(r) ==
  /\ Crash(r)
  /\ metrics' = [metrics EXCEPT ![r] = NewRegistry]
  /\ begun' = [begun EXCEPT ![r] = FALSE]

\* The steps of a pass that set no metric.
Unmetered(r) ==
  \/ Start(r)
  \/ AddFinalizer(r) \/ AddFinalizerUnanswered(r)
  \/ pc[r] = "addFinalizer" /\ FinalizerError(r)
  \/ Paused(r) \/ MalformedStartAfter(r) \/ Skip(r) \/ NotDue(r) \/ Proceed(r) \/ ClientsError(r)
  \/ DescribeNodegroup(r) \/ DescribeNodegroupError(r)
  \/ DescribeCluster(r) \/ DescribeClusterError(r)
  \/ ResolveLatest(r) \/ ResolveError(r)
  \/ WriteStatus(r) \/ WriteUnanswered(r) \/ WriteError(r)
  \/ Stamp(r) \/ StampError(r)

Elsewhere ==
  \/ \E r \in Replica : Unmetered(r) \/ Informer(r) \/ Timer(r) \/ BootReplica(r)
  \/ CooldownElapses
  \/ StartAfterPasses
  \/ \E id \in UpdateId : UpdateEnds(id)
  \/ AWSMoves
  \/ SomebodyActs

MeteredNext ==
  \/ \E r \in Replica :
       LetsGo(r) \/ LetsGoInVain(r) \/ Unsupported(r) \/ Begin(r) \/ Decide(r) \/ Dies(r)
  \/ Elsewhere /\ UNCHANGED meterVars

MeteredSpec == MeteredInit /\ [][MeteredNext]_meteredVars

------------------------------------------------------------------------------
(* Properties *)

\* The compliance gauge, set before the status is written, tells the story that
\* the write makes the stored one: when a replica's write changes the phase, its
\* own endpoint shows compliant exactly if the new phase is Succeeded, although
\* gauge and status are set apart in each of the seven branches.
ComplianceShown ==
  [][\A r \in Replica :
       /\ store # NoPolicy /\ store' # NoPolicy
       /\ store'.status.upgradeStatus # store.status.upgradeStatus
       /\ pc'[r] # pc[r]                \* it was r that wrote it
       => (metrics'[r].compliance = "compliant" <=> store'.status.upgradeStatus = "Succeeded")
    ]_meteredVars
=============================================================================
